---- MODULE Spec2Model ----
(***************************************************************************)
(* Bank-statement parser: format detection (parsers/detector.py), the      *)
(* per-format extractors (parsers/*.py) and the normalizer                 *)
(* (_fill_running_balance).                                                *)
(*                                                                         *)
(* Text is modelled as TLA+ strings processed character by character, so   *)
(* that substring tests, case folding and the regular expressions of the   *)
(* source are computed, not assumed.  Amounts are integers counted in      *)
(* thousandths ("mills"): 450.00 is 450000.  The alphabet is ASCII.        *)
(***************************************************************************)
EXTENDS Integers, Sequences, FiniteSets, TLC

\* ---- bounds of the model
MaxRecs == 3       \* records in a list handed to _fill_running_balance
MaxCalls == 2      \* calls of _fill_running_balance on the same list
MaxPhrases == 2    \* phrases on the first page of a document
MaxPages == 3      \* pages of a document
MaxParsed == 2     \* records an extractor returns to detect_and_parse
MaxLines == 3      \* lines of a credit-card statement
MaxLinePages == 2  \* pages of a credit-card statement
MaxBankRows == 2   \* rows of a bank-account statement
MaxBankPages == 2  \* pages of a bank-account statement
MaxSbiPages == 2   \* pages of an SBI statement
MaxDescWords == 2  \* words of a description handed to _determine_ledger

VARIABLES
  \* ---- _fill_running_balance (detector.py:190-205)
  transactions,   \* the record list being normalised
  bal_pc,         \* "idle" | "loop" | "done"
  bal_i,          \* loop index of `for txn in transactions`
  running,        \* local `running`
  bal_input,      \* the record list as it was when the call started
  bal_calls,      \* number of calls of _fill_running_balance made so far
  \* ---- detect_and_parse (detector.py:129-187)
  doc,            \* the document: what pdfplumber.open yields, and its page texts
  det_pc,         \* "open" | "sample" | "detect" | "dispatch" | "serial" |
                  \* "normalise" | "done" ("off" outside detect_and_parse)
  page_i,         \* pages sampled so far
  full_text,      \* local full_text
  first_page_text,\* local first_page_text
  bank_type,      \* local bank_type ("" before detection)
  parser_called,  \* the extractor that was called ("" if none)
  result,         \* "pending" | "None" | "dict" | "raised_password" | "raised"
  \* ---- the line-based extractors (parse_<format> and _process_<format>_text)
  fmt,            \* the extractor that runs ("" if none)
  ln_pc,          \* "scan" while pages are read, "done" after the last page
                  \* ("off" outside an extractor)
  pages_read,     \* the lines read so far, page by page (the last page is the
                  \* one being scanned)
  in_transactions,\* local in_transactions / in_transaction_section
  current_txn,    \* local current_txn (NoTxn for None)
  finalized,      \* the finalize calls made so far: the candidate handed over
                  \* and the record list before and after the call
  \* ---- the bank-account extractors (parse_hdfc_bank, parse_standard_bank,
  \* ---- parse_yes_bank)
  bank_fmt,       \* the extractor that runs ("" if none)
  bank_pc,        \* "scan" while pages are read, "done" after the last page
                  \* ("off" outside an extractor)
  bank_pages,     \* the pages read so far
  \* ---- parse_sbi_bank (sbi_bank.py:16-42), called more than once
  sbi_docs,       \* the document of each call: the words of its pages
  sbi_calls,      \* the locals of each call: pc ("scan" | "done"), the number
                  \* of pages read, transactions, col_x1 and state
  \* ---- one call of a function that reads nothing but its arguments
  fn_name,        \* the function called ("" if none)
  fn_args,        \* its arguments
  fn_result       \* [done, value]: whether it has returned, and what

balVars == <<transactions, bal_pc, bal_i, running, bal_input, bal_calls>>
detVars == <<doc, det_pc, page_i, full_text, first_page_text, bank_type,
             parser_called, result>>

lineVars == <<fmt, ln_pc, pages_read, in_transactions, current_txn, finalized>>
bankVars == <<bank_fmt, bank_pc, bank_pages>>
sbiVars == <<sbi_docs, sbi_calls>>
fnVars == <<fn_name, fn_args, fn_result>>
extVars == <<lineVars, bankVars, sbiVars, fnVars>>

vars == <<balVars, detVars, extVars>>

(***************************************************************************)
(* Strings                                                                 *)
(***************************************************************************)
Ch(s, i) == SubSeq(s, i, i)

DigitChars == {"0", "1", "2", "3", "4", "5", "6", "7", "8", "9"}

DigitVal(c) ==
  CASE c = "0" -> 0 [] c = "1" -> 1 [] c = "2" -> 2 [] c = "3" -> 3
    [] c = "4" -> 4 [] c = "5" -> 5 [] c = "6" -> 6 [] c = "7" -> 7
    [] c = "8" -> 8 [] c = "9" -> 9

\* str.replace(c, '') for a one-character c
RECURSIVE RemoveChar(_, _)
RemoveChar(s, c) ==
  IF s = "" THEN ""
  ELSE (IF Ch(s, 1) = c THEN "" ELSE Ch(s, 1)) \o RemoveChar(SubSeq(s, 2, Len(s)), c)

IsSpace(c) == c \in {" ", "\t", "\n"}

RECURSIVE LStrip(_)
LStrip(s) == IF s # "" /\ IsSpace(Ch(s, 1)) THEN LStrip(SubSeq(s, 2, Len(s))) ELSE s

RECURSIVE RStrip(_)
RStrip(s) ==
  IF s # "" /\ IsSpace(Ch(s, Len(s))) THEN RStrip(SubSeq(s, 1, Len(s) - 1)) ELSE s

\* str.strip()
Strip(s) == LStrip(RStrip(s))

\* k in s
Contains(s, k) ==
  \E i \in 1..(Len(s) - Len(k) + 1) : SubSeq(s, i, i + Len(k) - 1) = k

\* s.startswith(k)
StartsWith(s, k) == Len(s) >= Len(k) /\ SubSeq(s, 1, Len(k)) = k

\* every character of s[a..b] is in the class cls
AllIn(s, a, b, cls) == \A i \in a..b : Ch(s, i) \in cls

(***************************************************************************)
(* Field values.  A record field holds '' or an amount text (str) or a     *)
(* float (num, in mills).                                                  *)
(***************************************************************************)
Str(s) == [t |-> "str", n |-> 0, s |-> s]
Num(n) == [t |-> "num", n |-> n, s |-> ""]
Empty == Str("")

\* Python truthiness of a field value: '' and 0.0 are falsy
Truthy(v) == IF v.t = "str" THEN v.s # "" ELSE v.n # 0

(***************************************************************************)
(* Decimal text -> number                                                  *)
(***************************************************************************)
\* s.replace(k, '') for a non-empty k, scanning left to right
RECURSIVE Remove(_, _)
Remove(s, k) ==
  IF Len(s) < Len(k) THEN s
  ELSE IF SubSeq(s, 1, Len(k)) = k THEN Remove(SubSeq(s, Len(k) + 1, Len(s)), k)
  ELSE Ch(s, 1) \o Remove(SubSeq(s, 2, Len(s)), k)

\* value of a run of digits ("" is 0)
RECURSIVE DigitsVal(_)
DigitsVal(s) ==
  IF s = "" THEN 0
  ELSE 10 * DigitsVal(SubSeq(s, 1, Len(s) - 1)) + DigitVal(Ch(s, Len(s)))

\* position of the first "." of s, or 0
DotPos(s) ==
  IF \E i \in 1..Len(s) : Ch(s, i) = "."
  THEN CHOOSE i \in 1..Len(s) : Ch(s, i) = "." /\ \A j \in 1..(i - 1) : Ch(s, j) # "."
  ELSE 0

\* float(s) accepts s: digits with at most one ".", at least one digit.
\* (Signs, exponents, inf/nan and underscores are outside the alphabet of the
\* amount texts the extractors store.)
FloatOk(s) ==
  LET d == DotPos(s) IN
    /\ s # ""
    /\ IF d = 0 THEN AllIn(s, 1, Len(s), DigitChars)
       ELSE /\ AllIn(s, 1, d - 1, DigitChars)
            /\ AllIn(s, d + 1, Len(s), DigitChars)
            /\ Len(s) > 1

\* float(s) in mills, for s with FloatOk(s); fraction digits after the third
\* are outside the amount texts modelled and are dropped
FloatMills(s) ==
  LET d    == DotPos(s)
      ip   == IF d = 0 THEN s ELSE SubSeq(s, 1, d - 1)
      fp   == IF d = 0 THEN "" ELSE SubSeq(s, d + 1, Len(s))
      fp3  == SubSeq(fp \o "000", 1, 3)
  IN DigitsVal(ip) * 1000 + DigitsVal(fp3)

\* round(x, 2) on a float given in mills: the nearest multiple of 0.01.  An
\* exact tie (last digit 5) is settled by the float's binary expansion; the
\* amount texts modelled never sum to one, and ties go to the even neighbour.
Round2(m) ==
  LET r == m % 10
      lo == m - r
  IN IF r < 5 THEN lo
     ELSE IF r > 5 THEN lo + 10
     ELSE IF (lo \div 10) % 2 = 0 THEN lo ELSE lo + 10

(***************************************************************************)
(* detector.py: _to_float, _fill_running_balance                           *)
(***************************************************************************)
\* _to_float(val): 0.0 for '', 0; float(str(val) without ',' and 'Rs.') or
\* 0.0 when float() raises ValueError
ToFloat(v) ==
  IF v.t = "num" THEN v.n
  ELSE IF v.s = "" THEN 0
  ELSE LET c == Strip(Remove(Remove(v.s, ","), "Rs.")) IN
       IF FloatOk(c) THEN FloatMills(c) ELSE 0

\* txn.get('balance') not in (None, '', '0', 0)
BalancePresentMut(v) == Truthy(v)
BalancePresent(v) ==
  ~ \/ (v.t = "str" /\ v.s \in {"", "0"})
    \/ (v.t = "num" /\ v.n = 0)

\* has_balance = any(... for txn in transactions)
HasBalanceAllMut(txns) == \A i \in 1..Len(txns) : BalancePresent(txns[i].balance)
HasBalance(txns) == \E i \in 1..Len(txns) : BalancePresent(txns[i].balance)

\* one pass of the loop body: running = running - debit + credit
RunningStepMut(run, txn) == run + ToFloat(txn.debit) - ToFloat(txn.credit)
RunningStep(run, txn) == run - ToFloat(txn.debit) + ToFloat(txn.credit)

\* _fill_running_balance is entered (also a second time, on its own output)
BalCall ==
  /\ bal_pc = "idle"
  /\ bal_calls' = bal_calls + 1
  /\ bal_input' = transactions
  /\ running' = 0
  /\ bal_i' = 1
  /\ bal_pc' = IF HasBalance(transactions) \/ Len(transactions) = 0
               THEN "done" ELSE "loop"
  /\ UNCHANGED transactions
  /\ UNCHANGED <<detVars, extVars>>

\* one iteration of `for txn in transactions`
BalLoop ==
  /\ bal_pc = "loop"
  /\ LET r == RunningStep(running, transactions[bal_i]) IN
       /\ running' = r
       /\ transactions' =
            [transactions EXCEPT ![bal_i].balance = Num(Round2(r))]
  /\ bal_i' = bal_i + 1
  /\ bal_pc' = IF bal_i = Len(transactions) THEN "done" ELSE "loop"
  /\ UNCHANGED <<bal_input, bal_calls>>
  /\ UNCHANGED <<detVars, extVars>>

\* the caller applies _fill_running_balance again to the list it got back
BalAgain ==
  /\ bal_pc = "done"
  /\ bal_calls < MaxCalls
  /\ bal_pc' = "idle"
  /\ UNCHANGED <<transactions, bal_i, running, bal_input, bal_calls>>
  /\ UNCHANGED <<detVars, extVars>>

\* A record as the extractors emit it
Rec(date, desc, debit, credit, balance, ledger) ==
  [date |-> date, description |-> desc, debit |-> debit, credit |-> credit,
   balance |-> balance, ledger |-> ledger, serial |-> 0]

\* Record shapes handed to the normaliser: floats (hdfc_bank.py:89-95, the
\* credit-card extractors), amount texts (sbi_bank.py:190-192,
\* standard_bank.py:84-96) and '' for a missing field
BalShapes ==
  { Rec("01/04/2024", "NEFT A", Num(100000), Num(0), Empty, "Transfer"),
    Rec("02/04/2024", "SALARY", Num(0), Num(500000), Empty, "Salary"),
    Rec("03/04/2024", "ATM", Num(50000), Num(0), Empty, "Cash"),
    Rec("04/04/2024", "UPI B", Str("1,234.50"), Empty, Empty, "Transfer"),
    Rec("05 Apr 2024", "INTEREST", Empty, Str("12.342"), Empty, "Interest"),
    Rec("06/04/2024", "UPI C", Str("100.00"), Empty, Str("0.00"), "Transfer"),
    Rec("07/04/2024", "CASH DEP", Empty, Num(500000), Num(0), "Cash"),
    Rec("08/04/2024", "EMI", Num(20000), Empty, Num(380000), "EMI/Loan"),
    Rec("09 Apr 2024", "BALANCE FORWARD", Empty, Empty, Str("0"), "Opening Balance"),
    Rec("10 Apr 2024", "CHQ", Str("1.2.3"), Empty, Empty, "General"),
    Rec("11/04/2024", "NEFT D", Empty, Str("250.00"), Str("1,250.00"), "Transfer") }

RECURSIVE SeqsUpTo(_, _)
SeqsUpTo(S, n) ==
  IF n = 0 THEN {<<>>}
  ELSE LET shorter == SeqsUpTo(S, n - 1) IN
       shorter \cup {Append(q, x) : q \in {p \in shorter : Len(p) = n - 1}, x \in S}

BalInit ==
  /\ transactions \in SeqsUpTo(BalShapes, MaxRecs)
  /\ bal_pc = "idle"
  /\ bal_i = 1
  /\ running = 0
  /\ bal_input = <<>>
  /\ bal_calls = 0

NextBalance == BalCall \/ BalLoop \/ BalAgain

(***************************************************************************)
(* detector.py: detect_bank_type                                           *)
(***************************************************************************)
UpperChars == "ABCDEFGHIJKLMNOPQRSTUVWXYZ"
LowerChars == "abcdefghijklmnopqrstuvwxyz"
UpperSet == {Ch(UpperChars, i) : i \in 1..26}
LowerSet == {Ch(LowerChars, i) : i \in 1..26}
LowerOf == [c \in UpperSet |-> Ch(LowerChars, CHOOSE i \in 1..26 : Ch(UpperChars, i) = c)]

\* str.lower(), by halves
RECURSIVE Lower(_)
Lower(s) ==
  IF s = "" THEN ""
  ELSE IF Len(s) = 1 THEN (IF s \in UpperSet THEN LowerOf[s] ELSE s)
  ELSE LET h == Len(s) \div 2 IN
       Lower(SubSeq(s, 1, h)) \o Lower(SubSeq(s, h + 1, Len(s)))

\* regex \w and \b
WordChars == UpperSet \cup LowerSet \cup DigitChars \cup {"_"}
IsWordAt(s, i) == i >= 1 /\ i <= Len(s) /\ Ch(s, i) \in WordChars
Boundary(s, i) == IsWordAt(s, i - 1) # IsWordAt(s, i)

\* r'\b([A-Z]{4}0[A-Z0-9]{6})\b' matches s[i..i+10]
IfscAt(s, i) ==
  /\ i + 10 <= Len(s)
  /\ Boundary(s, i)
  /\ AllIn(s, i, i + 3, UpperSet)
  /\ Ch(s, i + 4) = "0"
  /\ AllIn(s, i + 5, i + 10, UpperSet \cup DigitChars)
  /\ Boundary(s, i + 11)

\* ifsc_matches[0][:4].upper(), or '' when re.findall finds nothing
IfscPrefixLastMut(s) ==
  IF \E i \in 1..Len(s) : IfscAt(s, i)
  THEN LET i == CHOOSE j \in 1..Len(s) :
                  IfscAt(s, j) /\ \A k \in (j + 1)..Len(s) : ~IfscAt(s, k)
       IN SubSeq(s, i, i + 3)
  ELSE ""
IfscPrefix(s) ==
  IF \E i \in 1..Len(s) : IfscAt(s, i)
  THEN LET i == CHOOSE j \in 1..Len(s) :
                  IfscAt(s, j) /\ \A k \in 1..(j - 1) : ~IfscAt(s, k)
       IN SubSeq(s, i, i + 3)
  ELSE ""

\* ifsc_bank_map
IfscBankMap ==
  [SBIN |-> "sbi_bank", YESB |-> "yes_bank", SCBL |-> "standard_bank",
   HDFC |-> "hdfc_bank", RATN |-> "rbl_bank", INDB |-> "indusind_credit"]

\* Tier 1 predicates, one per credit-card format (tl = text_lower, fp = fp_lower)
T1One(tl) == Contains(tl, "one credit card")
T1IndusInd(fp) ==
  /\ Contains(fp, "indusind")
  /\ (Contains(fp, "credit card") \/ Contains(fp, "indusind bank"))
  /\ \/ Contains(fp, "previous balance")
     \/ Contains(fp, "card statement")
     \/ Contains(fp, "purchases")
T1Yes(fp) ==
  \/ Contains(fp, "credit card statement") /\ Contains(fp, "yes bank")
  \/ /\ Contains(fp, "yes bank")
     /\ Contains(fp, "card number")
     /\ Contains(fp, "credit limit")
T1Sbi(fp) ==
  \/ /\ Contains(fp, "sbi card")
     /\ (Contains(fp, "credit limit") \/ Contains(fp, "stmt no"))
  \/ /\ (Contains(fp, "xxxx xxxx xxxx") \/ Contains(fp, "stmt no"))
     /\ Contains(fp, "sbi")
     /\ Contains(fp, "credit limit")
T1Hdfc(fp) ==
  \/ Contains(fp, "neucoins") \/ Contains(fp, "tata neu")
  \/ Contains(fp, "hdfc bank credit card")
  \/ /\ Contains(fp, "hdfc")
     /\ Contains(fp, "credit card")
     /\ (Contains(fp, "card no") \/ Contains(fp, "statement date"))
T1Rbl(fp) ==
  /\ Contains(fp, "rbl bank")
  /\ \/ Contains(fp, "credit limit")
     \/ Contains(fp, "min. amt")
     \/ Contains(fp, "the month gone by")
     \/ Contains(fp, "account summary")

\* TIER 1 (lines 35-70): the label returned, or "" to fall through
Tier1(tl, fp) ==
  IF T1One(tl) THEN "one_credit"
  ELSE IF T1IndusInd(fp) THEN "indusind_credit"
  ELSE IF T1Yes(fp) THEN "yes_credit"
  ELSE IF T1Sbi(fp) THEN "sbi_credit"
  ELSE IF T1Hdfc(fp) THEN "hdfc_credit"
  ELSE IF T1Rbl(fp) THEN "rbl_credit"
  ELSE ""

\* TIER 2 (lines 72-93): raw is `first_page_text or text`, case kept
Tier2(raw, fp) ==
  LET ifsc_prefix == IfscPrefix(raw) IN
    IF ifsc_prefix \in DOMAIN IfscBankMap
    THEN LET bank == IfscBankMap[ifsc_prefix] IN
         IF /\ bank = "hdfc_bank"
            /\ Contains(fp, "credit card")
            /\ Contains(fp, "credit limit")
         THEN "hdfc_credit"
         ELSE bank
    ELSE ""

\* TIER 3 (lines 95-126)
Tier3(fp) ==
  IF /\ (Contains(fp, "state bank") \/ Contains(fp, "sbin"))
     /\ \/ Contains(fp, "account statement")
        \/ Contains(fp, "txn date")
        \/ Contains(fp, "regular sb")
  THEN "sbi_bank"
  ELSE IF /\ Contains(fp, "hdfc")
          /\ \/ Contains(fp, "account statement")
             \/ Contains(fp, "savings")
             \/ Contains(fp, "current account")
  THEN "hdfc_bank"
  ELSE IF /\ (Contains(fp, "yes bank") \/ Contains(fp, "yesb"))
          /\ \/ Contains(fp, "saving")
             \/ Contains(fp, "transaction details for your account")
             \/ Contains(fp, "statement of account")
  THEN "yes_bank"
  ELSE IF Contains(fp, "rbl bank") /\ Contains(fp, "account") THEN "rbl_bank"
  ELSE IF Contains(fp, "standard chartered") THEN "standard_bank"
  ELSE IF Contains(fp, "sbi") /\ Contains(fp, "credit limit") THEN "sbi_credit"
  ELSE IF Contains(fp, "hdfc") THEN "hdfc_bank"
  ELSE IF Contains(fp, "yes bank") THEN "yes_bank"
  ELSE "unknown"

\* detect_bank_type(text, first_page_text)
DetectIfscFirstMut(text, fpt) ==
  LET raw == IF fpt # "" THEN fpt ELSE text
      tl  == Lower(text)
      fp  == Lower(raw)
      t2  == Tier2(raw, fp)
      t1  == Tier1(tl, fp)
  IN IF t2 # "" THEN t2 ELSE IF t1 # "" THEN t1 ELSE Tier3(fp)
DetectBankType(text, fpt) ==
  LET raw == IF fpt # "" THEN fpt ELSE text
      tl  == Lower(text)
      fp  == Lower(raw)
      t1  == Tier1(tl, fp)
  IN IF t1 # "" THEN t1
     ELSE LET t2 == Tier2(raw, fp) IN
          IF t2 # "" THEN t2 ELSE Tier3(fp)

(***************************************************************************)
(* detector.py: detect_and_parse                                           *)
(***************************************************************************)
\* pdf.pages[:3]
SampledPages == 3

\* Keys of parser_map (lines 153-165)
ParserMapWithDefaultMut ==
  {"sbi_bank", "sbi_credit", "hdfc_bank", "hdfc_credit", "yes_bank", "yes_credit",
   "rbl_bank", "rbl_credit", "indusind_credit", "one_credit", "standard_bank",
   "unknown"}
ParserMap ==
  {"sbi_bank", "sbi_credit", "hdfc_bank", "hdfc_credit", "yes_bank", "yes_credit",
   "rbl_bank", "rbl_credit", "indusind_credit", "one_credit", "standard_bank"}

\* Phrases a first page is made of, one per line
Phrases ==
  { "One Credit Card", "IndusInd Bank", "YES BANK", "Credit Card Statement",
    "SBI Card", "Credit Limit", "HDFC Bank", "RBL Bank",
    "IFSC: HDFC0001234", "IFSC: SBIN0005678", "ICIC0001234,YESB0000001",
    "Account Statement", "Dear Customer", "Standard Chartered",
    "Tata Neu Infinity", "Credit Card - Credit Limit 50,000" }

RECURSIVE JoinLines(_)
JoinLines(q) ==
  IF Len(q) = 0 THEN ""
  ELSE IF Len(q) = 1 THEN q[1]
  ELSE q[1] \o "\n" \o JoinLines(Tail(q))

\* page.extract_text() of the first page ('' when the page has no text)
FirstPageTexts == {JoinLines(q) : q \in SeqsUpTo(Phrases, MaxPhrases)}

\* page.extract_text() of the pages after the first
LaterPageTexts == {"", "Terms of the One Credit Card"}

\* A document: what pdfplumber.open does with it, and the text of its pages
Docs ==
  {[open |-> o, pages |-> <<>>] : o \in {"ok", "encrypted", "broken"}}
    \cup
  {[open |-> "ok", pages |-> <<f>> \o [i \in 1..n |-> l]] :
      f \in FirstPageTexts, l \in LaterPageTexts, n \in 0..(MaxPages - 1)}

\* The list an extractor hands back (the extractors themselves are modelled
\* below, each under its own specification)
ParsedSample ==
  [i \in 1..(MaxParsed + 1) |->
     IF i % 2 = 1
     THEN Rec("01/04/2024", "NEFT A", Num(100000), Empty, Empty, "Transfer")
     ELSE Rec("02/04/2024", "SALARY", Empty, Str("2,500.00"), Str("0.00"), "Salary")]
ParsedLists == {SubSeq(ParsedSample, 1, n) : n \in 0..MaxParsed}

\* with pdfplumber.open(filepath, password=password) as pdf (lines 134-144)
Open ==
  /\ det_pc = "open"
  /\ IF doc.open = "ok"
     THEN det_pc' = "sample" /\ UNCHANGED result
     ELSE /\ det_pc' = "done"
          /\ result' = IF doc.open = "encrypted" THEN "raised_password" ELSE "raised"
  /\ UNCHANGED <<doc, page_i, full_text, first_page_text, bank_type, parser_called>>
  /\ UNCHANGED <<balVars, extVars>>

\* one pass of `for i, page in enumerate(pdf.pages[:3])`
SamplePage ==
  /\ det_pc = "sample"
  /\ page_i < Len(doc.pages) /\ page_i < SampledPages
  /\ LET page_text == doc.pages[page_i + 1] IN
       /\ first_page_text' = IF page_i = 0 THEN page_text ELSE first_page_text
       /\ full_text' = full_text \o page_text \o "\n"
  /\ page_i' = page_i + 1
  /\ UNCHANGED <<doc, det_pc, bank_type, parser_called, result>>
  /\ UNCHANGED <<balVars, extVars>>

\* lines 146-149: empty text returns None, else detect_bank_type is called
Detect ==
  /\ det_pc = "sample"
  /\ ~(page_i < Len(doc.pages) /\ page_i < SampledPages)
  /\ IF Strip(full_text) = ""
     THEN det_pc' = "done" /\ result' = "None" /\ UNCHANGED bank_type
     ELSE /\ bank_type' = DetectBankType(full_text, first_page_text)
          /\ det_pc' = "dispatch"
          /\ UNCHANGED result
  /\ UNCHANGED <<doc, page_i, full_text, first_page_text, parser_called>>
  /\ UNCHANGED <<balVars, extVars>>

\* lines 167-168: a label that is no key of parser_map returns None
DispatchUnknown ==
  /\ det_pc = "dispatch"
  /\ bank_type \notin ParserMap
  /\ det_pc' = "done"
  /\ result' = "None"
  /\ UNCHANGED <<doc, page_i, full_text, first_page_text, bank_type, parser_called>>
  /\ UNCHANGED <<balVars, extVars>>

\* `not transactions` (line 173)
NoRecordsMut(txns) == FALSE
NoRecords(txns) == Len(txns) = 0

\* lines 170-174: the extractor is called; an empty list returns None
DispatchParser ==
  /\ det_pc = "dispatch"
  /\ bank_type \in ParserMap
  /\ parser_called' = bank_type
  /\ \E txns \in ParsedLists :
       /\ transactions' = txns
       /\ IF NoRecords(txns)
          THEN det_pc' = "done" /\ result' = "None"
          ELSE det_pc' = "serial" /\ UNCHANGED result
  /\ UNCHANGED <<doc, page_i, full_text, first_page_text, bank_type>>
  /\ UNCHANGED <<bal_pc, bal_i, running, bal_input, bal_calls, extVars>>

\* lines 177-178: txn['serial'] = i + 1 for the record at index i (from 0)
WithSerialsReversedMut(txns) ==
  [i \in 1..Len(txns) |-> [txns[Len(txns) + 1 - i] EXCEPT !.serial = i]]
WithSerials(txns) ==
  [i \in 1..Len(txns) |-> [txns[i] EXCEPT !.serial = i]]

\* lines 177-181: the serials are set, then _fill_running_balance is called
AssignSerials ==
  /\ det_pc = "serial"
  /\ transactions' = WithSerials(transactions)
  /\ det_pc' = "normalise"
  /\ bal_pc' = "idle"
  /\ UNCHANGED <<doc, page_i, full_text, first_page_text, bank_type, parser_called,
                 result>>
  /\ UNCHANGED <<bal_i, running, bal_input, bal_calls, extVars>>

\* lines 183-187
Return ==
  /\ det_pc = "normalise"
  /\ bal_pc = "done"
  /\ det_pc' = "done"
  /\ result' = "dict"
  /\ UNCHANGED <<doc, page_i, full_text, first_page_text, bank_type, parser_called>>
  /\ UNCHANGED <<balVars, extVars>>

DetIdle ==
  /\ doc = [open |-> "ok", pages |-> <<>>]
  /\ det_pc = "off"
  /\ page_i = 0
  /\ full_text = ""
  /\ first_page_text = ""
  /\ bank_type = ""
  /\ parser_called = ""
  /\ result = "pending"

DetInit ==
  /\ doc \in Docs
  /\ det_pc = "open"
  /\ page_i = 0
  /\ full_text = ""
  /\ first_page_text = ""
  /\ bank_type = ""
  /\ parser_called = ""
  /\ result = "pending"

\* _fill_running_balance not yet called
BalIdle ==
  /\ transactions = <<>>
  /\ bal_pc = "off"
  /\ bal_i = 1
  /\ running = 0
  /\ bal_input = <<>>
  /\ bal_calls = 0

(***************************************************************************)
(* Regular-expression pieces shared by the extractors                      *)
(***************************************************************************)
UpperOf == [c \in LowerSet |-> Ch(UpperChars, CHOOSE i \in 1..26 : Ch(LowerChars, i) = c)]

\* str.upper(), by halves
RECURSIVE Upper(_)
Upper(s) ==
  IF s = "" THEN ""
  ELSE IF Len(s) = 1 THEN (IF s \in LowerSet THEN UpperOf[s] ELSE s)
  ELSE LET h == Len(s) \div 2 IN
       Upper(SubSeq(s, 1, h)) \o Upper(SubSeq(s, h + 1, Len(s)))

\* any(kw in s for kw in kws)
ContainsAny(s, kws) == \E k \in kws : Contains(s, k)

\* Body at the value of v, a local name bound once: `x = v` followed by the
\* code that uses x
With(v, Body(_)) == CHOOSE r \in {Body(x) : x \in {v}} : TRUE

\* greedy run of a character class: the last position of the longest run of
\* cls starting at i (i - 1 when s[i] is not in cls)
RunEnd(s, i, cls) ==
  With({j \in i..Len(s) : Ch(s, j) \notin cls}, LAMBDA stop :
    IF stop = {} THEN Len(s) ELSE (CHOOSE j \in stop : \A k \in stop : j <= k) - 1)

\* the first position of the longest run of cls ending at e (e + 1 if none)
RunStart(s, e, cls) ==
  With({j \in 1..e : Ch(s, j) \notin cls}, LAMBDA stop :
    IF stop = {} THEN 1 ELSE (CHOOSE j \in stop : \A k \in stop : j >= k) + 1)

SpaceChars == {" ", "\t", "\n"}
AmountChars == DigitChars \cup {","}

\* re.sub(r'\s+', ' ', s).strip(): the characters kept, by halves
RECURSIVE CollapseFrom(_, _, _)
CollapseFrom(s, a, b) ==
  IF a > b THEN ""
  ELSE IF a = b
       THEN (IF Ch(s, a) \notin SpaceChars THEN Ch(s, a)
             ELSE IF a > 1 /\ Ch(s, a - 1) \in SpaceChars THEN "" ELSE " ")
  ELSE LET h == (a + b) \div 2 IN CollapseFrom(s, a, h) \o CollapseFrom(s, h + 1, b)

CollapseWs(s) == Strip(CollapseFrom(s, 1, Len(s)))

\* r'\d{1,2}' followed by the separator sep, from position i: the position
\* after the separator, 0 if there is no match
DayMonthSep(s, i, sep) ==
  With(RunEnd(s, i, DigitChars), LAMBDA e :
    IF e - i + 1 \in {1, 2} /\ e + 1 <= Len(s) /\ Ch(s, e + 1) = sep THEN e + 2 ELSE 0)

\* r'^\d{1,2}<sep>\d{1,2}<sep>\d{4}': end of the match, 0 if none
NumericDateEnd(s, sep) ==
  With(DayMonthSep(s, 1, sep), LAMBDA a :
  With(IF a = 0 THEN 0 ELSE DayMonthSep(s, a, sep), LAMBDA b :
    IF b # 0 /\ b + 3 <= Len(s) /\ AllIn(s, b, b + 3, DigitChars) THEN b + 3 ELSE 0))

\* r'^\d{1,2}\s+\w{3}' (one space only when single): the end of the \w{3},
\* 0 if none
DayMonEnd(s, single) ==
  With(RunEnd(s, 1, DigitChars), LAMBDA e :
  With(RunEnd(s, e + 1, SpaceChars), LAMBDA w :
    IF /\ e \in {1, 2}
       /\ w > e
       /\ (single => w = e + 1)
       /\ w + 3 <= Len(s)
       /\ AllIn(s, w + 1, w + 3, WordChars)
    THEN w + 3 ELSE 0))

\* r'^\d{1,2}\s+\w{3}\s+\d{lo,hi}' (greedy year): end of the match, 0 if none
DayMonYearEnd(s, single, lo, hi) ==
  With(DayMonEnd(s, single), LAMBDA m :
  With(IF m = 0 THEN 0 ELSE RunEnd(s, m + 1, SpaceChars), LAMBDA w :
  With(IF m = 0 THEN 0 ELSE RunEnd(s, w + 1, DigitChars) - w, LAMBDA y :
    IF m # 0 /\ w > m /\ (single => w = m + 1) /\ y >= lo
    THEN w + (IF y > hi THEN hi ELSE y) ELSE 0)))

\* tail of the amount patterns after the two decimals, from position p:
\* r'\s*(suffix)?\.?\s*$' (the dot only where the pattern has it).  Gives
\* <<matched, suffix>>; the alternatives of the suffix are tried in order.
AmountTail(s, p, suffixes, dot) ==
  With(RunEnd(s, p, SpaceChars) + 1, LAMBDA q :
    LET RestOk(r) ==
          AllIn(s, IF dot /\ r <= Len(s) /\ Ch(s, r) = "." THEN r + 1 ELSE r,
                Len(s), SpaceChars)
        SufOk(k) == /\ q + Len(suffixes[k]) - 1 <= Len(s)
                    /\ SubSeq(s, q, q + Len(suffixes[k]) - 1) = suffixes[k]
                    /\ RestOk(q + Len(suffixes[k]))
    IN With({k \in 1..Len(suffixes) : SufOk(k)}, LAMBDA hits :
         IF hits # {} THEN <<TRUE, suffixes[CHOOSE k \in hits : \A j \in hits : k <= j]>>
         ELSE <<RestOk(q), "">>))

\* amount_pattern.search(s) for r'([\d,]+\.\d{2})\s*(suffix)?\.?\s*$': the
\* leftmost match, as [found, start, amount, suffix]
AmountSearch(s, suffixes, dot) ==
  With({d \in 2..(Len(s) - 2) :
          /\ Ch(s, d) = "."
          /\ Ch(s, d - 1) \in AmountChars
          /\ AllIn(s, d + 1, d + 2, DigitChars)}, LAMBDA cands :
  With({d \in cands : AmountTail(s, d + 3, suffixes, dot)[1]}, LAMBDA dots :
    IF dots = {} THEN [found |-> FALSE, start |-> 0, amount |-> "", suffix |-> ""]
    ELSE With(CHOOSE x \in dots : \A y \in dots : x <= y, LAMBDA d :
         With(RunStart(s, d - 1, AmountChars), LAMBDA i :
           [found |-> TRUE, start |-> i, amount |-> SubSeq(s, i, d + 2),
            suffix |-> AmountTail(s, d + 3, suffixes, dot)[2]]))))

\* re.findall(r'([\d,]+\.\d{2})', s) from position `from` on: the amounts, in
\* order, of the non-overlapping matches
RECURSIVE AmountsFrom(_, _)
AmountsFrom(s, from) ==
  With({i \in from..Len(s) :
          /\ Ch(s, i) \in AmountChars
          /\ With(RunEnd(s, i, AmountChars), LAMBDA k :
               /\ k + 3 <= Len(s)
               /\ Ch(s, k + 1) = "."
               /\ AllIn(s, k + 2, k + 3, DigitChars))}, LAMBDA starts :
    IF starts = {} THEN <<>>
    ELSE With(CHOOSE x \in starts : \A y \in starts : x <= y, LAMBDA i :
         With(RunEnd(s, i, AmountChars) + 3, LAMBDA e :
           <<SubSeq(s, i, e)>> \o AmountsFrom(s, e + 1))))

\* float(a.replace(',', '')) for a text matched by r'[\d,]+\.\d{2}'
AmountFloat(a) == FloatMills(RemoveChar(a, ","))

(***************************************************************************)
(* The line-based (credit-card) extractors: what they share                *)
(***************************************************************************)
\* current_txn = None
NoTxn ==
  [some |-> FALSE, date |-> "", description |-> "", amount |-> Empty,
   dr_cr |-> "", is_credit |-> FALSE, raw_line |-> ""]

\* The state after `if current_txn: finalize(current_txn, transactions)`,
\* where `after` is the list the format's finalize function leaves.  st is
\* the running state of one _process_<format>_text call: its locals in_tx
\* and cur, the output list txns, and finalized, the log of the finalize
\* calls made so far.
ClosedUnfinalizedMut(st, after) == st
Closed(st, after) ==
  IF st.cur.some
  THEN [st EXCEPT !.txns = after,
                  !.finalized = Append(@, [txn |-> st.cur, before |-> st.txns,
                                           after |-> after])]
  ELSE st

\* _determine_ledger of the credit-card extractors: the label of the first
\* rule one of whose keywords occurs in description.upper()
FirstLedgerLastMut(rules, description) ==
  With(Upper(description), LAMBDA desc :
  With({i \in 1..Len(rules) : ContainsAny(desc, rules[i][1])}, LAMBDA hits :
    IF hits = {} THEN "General"
    ELSE rules[CHOOSE i \in hits : \A j \in hits : i >= j][2]))
FirstLedger(rules, description) ==
  With(Upper(description), LAMBDA desc :
  With({i \in 1..Len(rules) : ContainsAny(desc, rules[i][1])}, LAMBDA hits :
    IF hits = {} THEN "General"
    ELSE rules[CHOOSE i \in hits : \A j \in hits : i <= j][2]))

\* the transaction dict built on a dated line by yes_credit, sbi_credit,
\* indusind_credit and rbl_credit: dm is date_match.end()
AnchorTxn(line, dm, suffixes, dot) ==
  With(Strip(SubSeq(line, dm + 1, Len(line))), LAMBDA rest :
  With(AmountSearch(rest, suffixes, dot), LAMBDA am :
    [some |-> TRUE,
     date |-> SubSeq(line, 1, dm),
     description |-> IF am.found THEN Strip(SubSeq(rest, 1, am.start - 1)) ELSE rest,
     amount |-> Str(am.amount),
     dr_cr |-> Upper(am.suffix),
     is_credit |-> FALSE,
     raw_line |-> ""]))

\* a continuation line gives the transaction its amount (same four extractors)
TakeAmount(cur, line, am) ==
  With(Strip(SubSeq(line, 1, am.start - 1)), LAMBDA desc_part :
    [cur EXCEPT !.amount = Str(am.amount),
                !.dr_cr = Upper(am.suffix),
                !.description = IF desc_part # "" THEN @ \o " " \o desc_part ELSE @])

\* current_txn['description'] += ' ' + line
AppendLine(cur, line) == [cur EXCEPT !.description = @ \o " " \o line]

\* re.sub(r'\s*-?\s*Ref\s*No\s*:\s*\S+', '', s, flags=re.IGNORECASE); with
\* dash the hyphen is mandatory (sbi_credit)
RECURSIVE RemoveRefNo(_, _)
RemoveRefNo(s, dash) ==
  With(Lower(s), LAMBDA low :
    LET \* end of the match whose 'Ref' starts at r, 0 if none
        CoreEnd(r) ==
          IF r + 2 <= Len(s) /\ SubSeq(low, r, r + 2) = "ref"
          THEN With(RunEnd(s, r + 3, SpaceChars) + 1, LAMBDA n :
               IF n + 1 <= Len(s) /\ SubSeq(low, n, n + 1) = "no"
               THEN With(RunEnd(s, n + 2, SpaceChars) + 1, LAMBDA c :
                    IF c <= Len(s) /\ Ch(s, c) = ":"
                    THEN With(RunEnd(s, c + 1, SpaceChars) + 1, LAMBDA v :
                         IF v <= Len(s) /\ Ch(s, v) \notin SpaceChars
                         THEN RunEnd(s, v, {Ch(s, i) : i \in 1..Len(s)} \ SpaceChars)
                         ELSE 0)
                    ELSE 0)
               ELSE 0)
          ELSE 0
        \* start of the match whose 'Ref' starts at r (0 if the mandatory
        \* hyphen is missing)
        CoreStart(r) ==
          With(RunStart(s, r - 1, SpaceChars), LAMBDA a :
            IF a > 1 /\ Ch(s, a - 1) = "-" THEN RunStart(s, a - 2, SpaceChars)
            ELSE IF dash THEN 0 ELSE a)
    IN With({r \in 1..Len(s) : CoreEnd(r) # 0 /\ CoreStart(r) # 0}, LAMBDA cores :
         IF cores = {} THEN s
         ELSE With(CHOOSE x \in cores : \A y \in cores : x <= y, LAMBDA r :
                SubSeq(s, 1, CoreStart(r) - 1)
                  \o RemoveRefNo(SubSeq(s, CoreEnd(r) + 1, Len(s)), dash))))

\* re.sub(r'\s*\d{lo,hi}\s*$', '', s) (needSpace: r'\s+\d{lo,hi}\s*$'): the
\* leftmost match reaches back over at most hi digits of the last digit run
RemoveTrailingCode(s, lo, hi, needSpace) ==
  With(Len(RStrip(s)), LAMBDA e :
  With(e - RunStart(s, e, DigitChars) + 1, LAMBDA n :
  With(e - (IF n > hi THEN hi ELSE n) + 1, LAMBDA first :
  With(RunStart(s, first - 1, SpaceChars), LAMBDA sp :
    IF n < lo THEN s
    ELSE IF n > hi
         THEN (IF needSpace THEN s ELSE SubSeq(s, 1, first - 1))
    ELSE IF needSpace /\ sp = first THEN s
    ELSE SubSeq(s, 1, sp - 1)))))

(***************************************************************************)
(* yes_credit.py                                                           *)
(***************************************************************************)
YesCreditLedgers ==
  << <<{"ZOMATO", "SWIGGY", "FOOD", "RESTAURANT"}, "Food & Dining">>,
     <<{"AMAZON", "FLIPKART", "MYNTRA"}, "Shopping Online">>,
     <<{"PETROL", "FUEL", "AUTO FILLS"}, "Fuel">>,
     <<{"BLINKIT", "ZEPTO", "GROCERY", "DMART", "BIGBASKET"}, "Groceries">>,
     <<{"NETFLIX", "SPOTIFY", "HOTSTAR"}, "Entertainment">>,
     <<{"RECHARGE", "AIRTEL", "JIO", "ELECTRICITY"}, "Utilities">>,
     <<{"HOSPITAL", "MEDICAL", "PHARMACY"}, "Medical">>,
     <<{"UBER", "OLA", "RAPIDO", "CAB"}, "Transport">>,
     <<{"PAYMENT RECEIVED", "PAYMENT", "IRIS"}, "Payment/Refund">>,
     <<{"FEE", "CHARGE", "GST", "SERVICE TAX"}, "Fees & Charges">>,
     <<{"RETAIL OUTLET"}, "Retail">>,
     <<{"SERVICE STATION"}, "Fuel">> >>

YesCreditSuffixes == <<"Dr", "Cr", "DR", "CR">>

\* the zero-amount test of _finalize_yes_credit_txn
YesCreditZeroMut(amount_float) == FALSE
YesCreditZero(amount_float) == amount_float = 0

\* _finalize_yes_credit_txn(txn, transactions): the list afterwards
FinalizeYesCreditTxn(txn, txns) ==
  IF ~Truthy(txn.amount) \/ txn.date = "" THEN txns
  ELSE With(RemoveChar(txn.amount.s, ","), LAMBDA amount :
    IF ~FloatOk(amount) THEN txns
    ELSE With(FloatMills(amount), LAMBDA amount_float :
         With(RemoveTrailingCode(RemoveRefNo(CollapseWs(txn.description), FALSE), 3, 4, FALSE),
              LAMBDA desc :
         With(Contains(Upper(desc), "PAYMENT RECEIVED") \/ txn.dr_cr = "CR",
              LAMBDA credit :
           IF YesCreditZero(amount_float) THEN txns
           ELSE Append(txns,
                  Rec(txn.date, desc,
                      IF credit THEN Empty ELSE Num(amount_float),
                      IF credit THEN Num(amount_float) ELSE Empty,
                      Empty, FirstLedger(YesCreditLedgers, desc)))))))

\* one iteration of `for line in lines` of _process_yes_credit_text
YesCreditLine(st, raw) ==
  With(Strip(raw), LAMBDA line :
  With(Lower(line), LAMBDA lower :
  With(NumericDateEnd(line, "/"), LAMBDA dm :
  With(AmountSearch(line, YesCreditSuffixes, TRUE), LAMBDA am :
  LET in_tx == st.in_tx \/ (dm # 0 /\ am.found)
  IN IF line = "" THEN st
     ELSE IF /\ Contains(lower, "date")
             /\ (Contains(lower, "transaction detail") \/ Contains(lower, "merchant category"))
          THEN [st EXCEPT !.in_tx = TRUE]
     ELSE IF ContainsAny(lower, {"making only the minimum", "presenting emi",
                                 "important message", "promotional message",
                                 "total amount due", "for enquiries",
                                 "please note", "go green"})
          THEN [st EXCEPT !.in_tx = FALSE]
     ELSE IF ~in_tx THEN st
     ELSE IF dm # 0
          THEN [Closed(st, FinalizeYesCreditTxn(st.cur, st.txns)) EXCEPT
                  !.in_tx = TRUE,
                  !.cur = AnchorTxn(line, dm, YesCreditSuffixes, TRUE)]
     ELSE IF st.cur.some
          THEN [st EXCEPT
                 !.in_tx = TRUE,
                 !.cur =
                 IF am.found
                 THEN (IF ~Truthy(st.cur.amount) THEN TakeAmount(st.cur, line, am)
                       ELSE st.cur)
                 ELSE IF ~ContainsAny(lower, {"page", "statement for", "card number"})
                      THEN AppendLine(st.cur, line)
                      ELSE st.cur]
     ELSE [st EXCEPT !.in_tx = in_tx]))))

(***************************************************************************)
(* sbi_credit.py                                                           *)
(***************************************************************************)
SbiCreditLedgers ==
  << <<{"ZOMATO", "SWIGGY", "FOOD", "RESTAURANT", "CAFE", "PIZZA", "BURGER",
        "DOMINOS", "STARBUCKS", "TACO", "BARBEQUE"}, "Food & Dining">>,
     <<{"AMAZON", "FLIPKART", "MYNTRA", "AJIO", "MEESHO"}, "Shopping Online">>,
     <<{"NETFLIX", "SPOTIFY", "HOTSTAR", "PRIME VIDEO", "YOUTUBE"}, "Entertainment">>,
     <<{"PETROL", "DIESEL", "FUEL", "PETROLEUM", "HP ", "BPCL", "IOCL",
        "AUTO FILLS", "OIL", "BHARAT PETRO"}, "Fuel">>,
     <<{"AIRTEL", "JIO", "VODAFONE", "RECHARGE", "ELECTRICITY", "WATER", "GAS",
        "BROADBAND", "BILL PAY"}, "Utilities">>,
     <<{"HOSPITAL", "MEDICAL", "PHARMACY", "CHEMIST", "DOCTOR", "HEALTH",
        "APOLLO", "FORTIS", "MEDIC"}, "Medical">>,
     <<{"UBER", "OLA", "RAPIDO", "IRCTC", "MAKEMYTRIP", "YATRA", "AIRLINES",
        "FLIGHT", "TRAIN", "CAB", "TRAVEL"}, "Travel">>,
     <<{"GROCERY", "BIGBASKET", "BLINKIT", "ZEPTO", "DMART", "SUPERMARKET",
        "GROFERS", "NATURE", "BASKET"}, "Groceries">>,
     <<{"EMI", "LOAN"}, "EMI/Loan">>,
     <<{"INSURANCE", "LIC", "POLICY"}, "Insurance">>,
     <<{"PAYMENT RECEIVED", "PAYMENT", "REVERSAL", "REFUND"}, "Payment/Refund">>,
     <<{"FEE", "CHARGE", "ANNUAL", "SURCHARGE", "GST", "TAX", "SERVICE TAX"},
       "Fees & Charges">>,
     <<{"APPAREL", "CLOTHING", "FASHION", "MARKS AND SPENCER", "H AND M", "ZARA",
        "BATA", "JOCKEY", "LEVI"}, "Clothing">> >>

SbiCreditSuffixes == <<"Dr", "Cr", "DR", "CR", "D", "C">>

\* date_pattern.match(line).end() of sbi_credit.py, 0 if no match
SbiCreditDateEnd(line) ==
  With(NumericDateEnd(line, "/"), LAMBDA numeric :
    IF numeric # 0 THEN numeric
    ELSE With(DayMonYearEnd(line, FALSE, 4, 4), LAMBDA long :
           IF long # 0 THEN long ELSE DayMonYearEnd(line, TRUE, 2, 2)))

\* _finalize_sbi_credit_txn(txn, transactions): the list afterwards
FinalizeSbiCreditTxn(txn, txns) ==
  IF ~Truthy(txn.amount) \/ txn.date = "" THEN txns
  ELSE With(RemoveChar(txn.amount.s, ","), LAMBDA amount :
    IF ~FloatOk(amount) THEN txns
    ELSE With(FloatMills(amount), LAMBDA amount_float :
         With(RemoveRefNo(CollapseWs(txn.description), TRUE),
              LAMBDA desc :
         With(txn.dr_cr \in {"CR", "C"}
                \/ ContainsAny(Upper(desc), {"PAYMENT RECEIVED", "REVERSAL", "REFUND"}),
              LAMBDA credit :
           IF amount_float = 0 THEN txns
           ELSE Append(txns,
                  Rec(txn.date, desc,
                      IF credit THEN Empty ELSE Num(amount_float),
                      IF credit THEN Num(amount_float) ELSE Empty,
                      Empty, FirstLedger(SbiCreditLedgers, desc)))))))

\* one iteration of `for line in lines` of _process_sbi_credit_text
SbiCreditLine(st, raw) ==
  With(Strip(raw), LAMBDA line :
  With(Lower(line), LAMBDA lower :
  With(SbiCreditDateEnd(line), LAMBDA dm :
  With(AmountSearch(line, SbiCreditSuffixes, TRUE), LAMBDA am :
  LET in_tx == st.in_tx \/ (dm # 0 /\ am.found)
      bare == RemoveChar(RemoveChar(line, " "), "-")
  IN IF line = "" THEN st
     ELSE IF ContainsAny(lower, {"transaction details", "domestic transaction",
                                 "international transaction"})
          THEN [st EXCEPT !.in_tx = TRUE]
     ELSE IF ContainsAny(lower, {"account summary", "statement summary", "payment due",
                                 "credit limit", "available credit", "shop & smile",
                                 "reward", "points expiry", "gstin", "hsn code",
                                 "important information", "useful links", "page "})
          THEN (IF Contains(lower, "page ") THEN st ELSE [st EXCEPT !.in_tx = FALSE])
     ELSE IF ~in_tx THEN st
     ELSE IF dm # 0
          THEN [Closed(st, FinalizeSbiCreditTxn(st.cur, st.txns)) EXCEPT
                  !.in_tx = TRUE,
                  !.cur = AnchorTxn(line, dm, SbiCreditSuffixes, TRUE)]
     ELSE IF st.cur.some
          THEN [st EXCEPT
                 !.in_tx = TRUE,
                 !.cur =
                 IF am.found
                 THEN (IF ~Truthy(st.cur.amount) THEN TakeAmount(st.cur, line, am)
                       ELSE st.cur)
                 ELSE IF ~(bare # "" /\ AllIn(bare, 1, Len(bare), DigitChars))
                         /\ ~StartsWith(lower, "ref no")
                      THEN AppendLine(st.cur, line)
                      ELSE st.cur]
     ELSE [st EXCEPT !.in_tx = in_tx]))))

(***************************************************************************)
(* indusind_credit.py                                                      *)
(***************************************************************************)
IndusindCreditLedgers ==
  << <<{"RESTAURANT", "FOOD", "SWEETS", "CAFE"}, "Food & Dining">>,
     <<{"PERSONAL CARE"}, "Personal Care">>,
     <<{"PAYMENT", "REFUND"}, "Payment/Refund">>,
     <<{"FEE", "CHARGE", "GST"}, "Fees & Charges">> >>

IndusindCreditSuffixes == <<"DR", "CR", "Dr", "Cr">>

\* _finalize(txn, transactions) of indusind_credit.py: the list afterwards
FinalizeIndusindCredit(txn, txns) ==
  IF ~Truthy(txn.amount) \/ txn.date = "" THEN txns
  ELSE With(RemoveChar(txn.amount.s, ","), LAMBDA amount :
    IF ~FloatOk(amount) THEN txns
    ELSE With(FloatMills(amount), LAMBDA amount_float :
         With(RemoveTrailingCode(CollapseWs(txn.description), 3, 3, TRUE),
              LAMBDA desc :
         With(txn.dr_cr = "CR" \/ ContainsAny(Upper(desc), {"PAYMENT", "CREDIT"}),
              LAMBDA credit :
           IF amount_float = 0 THEN txns
           ELSE Append(txns,
                  Rec(txn.date, desc,
                      IF credit THEN Empty ELSE Num(amount_float),
                      IF credit THEN Num(amount_float) ELSE Empty,
                      Empty, FirstLedger(IndusindCreditLedgers, desc)))))))

\* one iteration of `for line in lines` of indusind_credit._process_text
IndusindCreditLine(st, raw) ==
  With(Strip(raw), LAMBDA line :
  With(Lower(line), LAMBDA lower :
  With(NumericDateEnd(line, "/"), LAMBDA dm :
  With(AmountSearch(line, IndusindCreditSuffixes, FALSE), LAMBDA am :
    IF line = "" THEN st
    ELSE IF ContainsAny(lower, {"purchases & cash", "transaction detail"})
         THEN [st EXCEPT !.in_tx = TRUE]
    ELSE IF ContainsAny(lower, {"marketing message", "how to make payment",
                                "closest indusind", "important message",
                                "use convenient", "use your tpin",
                                "total", "previous balance"})
         THEN [Closed(st, FinalizeIndusindCredit(st.cur, st.txns)) EXCEPT !.cur = NoTxn]
    ELSE IF dm # 0
         THEN [Closed(st, FinalizeIndusindCredit(st.cur, st.txns)) EXCEPT
                 !.in_tx = TRUE,
                 !.cur = AnchorTxn(line, dm, IndusindCreditSuffixes, FALSE)]
    ELSE IF st.cur.some /\ st.in_tx
         THEN [st EXCEPT
                !.in_tx = TRUE,
                !.cur =
                IF am.found /\ ~Truthy(st.cur.amount) THEN TakeAmount(st.cur, line, am)
                ELSE IF /\ ~ContainsAny(lower, {"page", "statement"})
                        /\ ~(Len(line) = 3 /\ AllIn(line, 1, 3, DigitChars))
                     THEN AppendLine(st.cur, line)
                     ELSE st.cur]
    ELSE st))))

(***************************************************************************)
(* rbl_credit.py                                                           *)
(***************************************************************************)
RblCreditLedgers ==
  << <<{"ZOMATO", "SWIGGY", "FOOD", "RESTAURANT"}, "Food & Dining">>,
     <<{"AMAZON", "FLIPKART"}, "Shopping Online">>,
     <<{"PETROL", "FUEL"}, "Fuel">>,
     <<{"PAYMENT", "REVERSAL", "REFUND"}, "Payment/Refund">>,
     <<{"FEE", "CHARGE", "GST"}, "Fees & Charges">>,
     <<{"EMI", "LOAN"}, "EMI/Loan">> >>

RblCreditSuffixes == <<"DR", "CR", "Dr", "Cr">>

\* date_pattern.match(line).end() of rbl_credit.py, 0 if no match
RblCreditDateEnd(line) ==
  With(NumericDateEnd(line, "/"), LAMBDA slashes :
    IF slashes # 0 THEN slashes
    ELSE With(NumericDateEnd(line, "-"), LAMBDA dashes :
           IF dashes # 0 THEN dashes ELSE DayMonYearEnd(line, FALSE, 2, 4)))

\* _finalize_txn(txn, transactions) of rbl_credit.py: the list afterwards
FinalizeRblCreditTxn(txn, txns) ==
  IF ~Truthy(txn.amount) \/ txn.date = "" THEN txns
  ELSE With(RemoveChar(txn.amount.s, ","), LAMBDA amount :
    IF ~FloatOk(amount) THEN txns
    ELSE With(FloatMills(amount), LAMBDA amount_float :
         With(CollapseWs(txn.description),
              LAMBDA desc :
         With(txn.dr_cr = "CR" \/ Contains(Upper(desc), "PAYMENT"),
              LAMBDA credit :
           IF amount_float = 0 THEN txns
           ELSE Append(txns,
                  Rec(txn.date, desc,
                      IF credit THEN Empty ELSE Num(amount_float),
                      IF credit THEN Num(amount_float) ELSE Empty,
                      Empty, FirstLedger(RblCreditLedgers, desc)))))))

\* one iteration of `for line in lines` of _process_rbl_credit_text
RblCreditLine(st, raw) ==
  With(Strip(raw), LAMBDA line :
  With(Lower(line), LAMBDA lower :
  With(RblCreditDateEnd(line), LAMBDA dm :
  With(AmountSearch(line, RblCreditSuffixes, FALSE), LAMBDA am :
    IF line = "" THEN st
    ELSE IF ContainsAny(lower, {"transaction detail", "domestic transaction",
                                "international transaction", "purchases & cash"})
         THEN [st EXCEPT !.in_tx = TRUE]
    ELSE IF ContainsAny(lower, {"important message", "how to make payment",
                                "closest indusind", "marketing message",
                                "promotional message", "total"})
         THEN [Closed(st, FinalizeRblCreditTxn(st.cur, st.txns)) EXCEPT
                 !.in_tx = FALSE,
                 !.cur = NoTxn]
    ELSE IF ~st.in_tx /\ ~(dm # 0 /\ am.found) THEN st
    ELSE IF dm # 0
         THEN [Closed(st, FinalizeRblCreditTxn(st.cur, st.txns)) EXCEPT
                 !.in_tx = TRUE,
                 !.cur = AnchorTxn(line, dm, RblCreditSuffixes, FALSE)]
    ELSE IF st.cur.some
         THEN [st EXCEPT
                !.in_tx = TRUE,
                !.cur =
                IF am.found /\ ~Truthy(st.cur.amount) THEN TakeAmount(st.cur, line, am)
                ELSE IF ~ContainsAny(lower, {"page", "statement", "card no"})
                     THEN AppendLine(st.cur, line)
                     ELSE st.cur]
    ELSE st))))

(***************************************************************************)
(* hdfc_credit.py                                                          *)
(***************************************************************************)
HdfcCreditLedgers ==
  << <<{"ZOMATO", "SWIGGY", "FOOD", "RESTAURANT", "STARBUCKS", "TACO", "BARBEQUE",
        "MCDONALDS", "KFC", "CAFE", "DOMINOS", "PIZZA"}, "Food & Dining">>,
     <<{"PETROL", "DIESEL", "FUEL", "AUTO FILLS", "HP ", "BPCL"}, "Fuel">>,
     <<{"AMAZON", "FLIPKART", "MYNTRA", "AJIO"}, "Shopping Online">>,
     <<{"NETFLIX", "SPOTIFY", "HOTSTAR"}, "Entertainment">>,
     <<{"BLINKIT", "ZEPTO", "BIGBASKET", "GROCERY", "DMART"}, "Groceries">>,
     <<{"H AND M", "ZARA", "BATA", "JOCKEY", "MARKS AND SPENCER", "CLOTHING",
        "APPAREL", "INDIVINITY", "BANGLES"}, "Clothing & Accessories">>,
     <<{"FITNESS", "GYM"}, "Health & Fitness">>,
     <<{"SURCHARGE WAIVER", "REVERSAL", "REFUND"}, "Adjustment">> >>

SignChars == {"+", "-"}

\* date_pattern.match(line).end() of hdfc_credit.py
\* (r'^(\d{1,2}/\d{1,2}/\d{4})\s*\|?\s*(\d{1,2}:\d{2})?'); 0 if no match
HdfcCreditDateEnd(line) ==
  With(NumericDateEnd(line, "/"), LAMBDA d :
  With(RunEnd(line, d + 1, SpaceChars), LAMBDA a :
  With(IF a + 1 <= Len(line) /\ Ch(line, a + 1) = "|" THEN a + 1 ELSE a, LAMBDA b :
  With(RunEnd(line, b + 1, SpaceChars), LAMBDA c :
  With(DayMonthSep(line, c + 1, ":"), LAMBDA t :
    IF d = 0 THEN 0
    ELSE IF t # 0 /\ t + 1 <= Len(line) /\ AllIn(line, t, t + 1, DigitChars)
         THEN t + 1 ELSE c)))))

\* list(re.finditer(r'[+\-]?\s*[₹C]\s*([\d,]+\.\d{2})', s)), as
\* [any, first (start of the first match), last (start of the last match),
\* amount (group 1 of the last match)]
HdfcCreditAmtMatches(s) ==
  LET Digits(c) == RunEnd(s, c + 1, SpaceChars) + 1
      Valid(c) ==
        /\ Ch(s, c) = "C"
        /\ With(Digits(c), LAMBDA g :
           With(RunEnd(s, g, AmountChars), LAMBDA k :
             k >= g /\ k + 3 <= Len(s) /\ Ch(s, k + 1) = "."
               /\ AllIn(s, k + 2, k + 3, DigitChars)))
      Start(c) ==
        With(RunStart(s, c - 1, SpaceChars), LAMBDA a :
          IF a > 1 /\ Ch(s, a - 1) \in SignChars THEN a - 1 ELSE a)
  IN With({c \in 1..Len(s) : Valid(c)}, LAMBDA cs :
       IF cs = {} THEN [any |-> FALSE, first |-> 0, last |-> 0, amount |-> ""]
       ELSE With(CHOOSE c \in cs : \A d \in cs : c <= d, LAMBDA lo :
            With(CHOOSE c \in cs : \A d \in cs : c >= d, LAMBDA hi :
            With(Digits(hi), LAMBDA g :
              [any |-> TRUE, first |-> Start(lo), last |-> Start(hi),
               amount |-> SubSeq(s, g, RunEnd(s, g, AmountChars) + 3)]))))

\* re.sub(r'[+\-]?\s*\d+\s*$', '', s)
RemoveTrailingCount(s) ==
  With(Len(RStrip(s)), LAMBDA e :
  With(RunStart(s, e, DigitChars), LAMBDA b :
  With(RunStart(s, b - 1, SpaceChars), LAMBDA a :
    IF b > e THEN s
    ELSE IF a > 1 /\ Ch(s, a - 1) \in SignChars THEN SubSeq(s, 1, a - 2)
    ELSE SubSeq(s, 1, a - 1))))

\* re.sub(r'[cls]\s*$', '', s) for a class of single characters
RemoveLastIn(s, cls) ==
  With(Len(RStrip(s)), LAMBDA e :
    IF e >= 1 /\ Ch(s, e) \in cls THEN SubSeq(s, 1, e - 1) ELSE s)

\* for a in amounts: desc = desc.replace(a, '').strip()
RECURSIVE StripAmounts(_, _)
StripAmounts(desc, amounts) ==
  IF amounts = <<>> THEN desc
  ELSE StripAmounts(Strip(Remove(desc, Head(amounts))), Tail(amounts))

\* the transaction dict built on a dated line by hdfc_credit.py
HdfcCreditAnchor(line, dm) ==
  \* rest = line[date_match.end():].strip(); rest.lstrip('|').strip()
  With(Strip(SubSeq(line, dm + 1, Len(line))), LAMBDA r0 :
  With(Strip(SubSeq(r0, RunEnd(r0, 1, {"|"}) + 1, Len(r0))), LAMBDA rest :
  With(HdfcCreditAmtMatches(rest), LAMBDA ms :
  With(AmountsFrom(rest, 1), LAMBDA plain_amounts :
    IF ms.any
    THEN [NoTxn EXCEPT
            !.some = TRUE,
            !.date = SubSeq(line, 1, NumericDateEnd(line, "/")),
            !.description = Strip(RemoveTrailingCount(Strip(SubSeq(rest, 1, ms.first - 1)))),
            !.amount = Num(AmountFloat(ms.amount)),
            !.is_credit = Contains(SubSeq(rest, IF ms.last - 5 < 1 THEN 1 ELSE ms.last - 5,
                                          ms.last - 1), "+")]
    ELSE [NoTxn EXCEPT
            !.some = TRUE,
            !.date = SubSeq(line, 1, NumericDateEnd(line, "/")),
            !.description =
               CollapseWs(Strip(RemoveLastIn(StripAmounts(rest, plain_amounts),
                                             {"C", "+", "-", "l"}))),
            !.amount = IF plain_amounts # <<>>
                       THEN Num(AmountFloat(plain_amounts[Len(plain_amounts)]))
                       ELSE Num(0),
            !.is_credit = plain_amounts # <<>>
                          /\ Contains(SubSeq(line, 1, IF Len(line) < 20 THEN Len(line) ELSE 20), "+")]))))

\* _finalize_hdfc_credit_txn(txn, transactions): the list afterwards
FinalizeHdfcCreditTxn(txn, txns) ==
  IF txn.amount.n = 0 THEN txns
  ELSE With(CollapseWs(txn.description), LAMBDA d1 :
       With(Len(RStrip(d1)), LAMBDA e :
       With(IF e >= 1 /\ Ch(d1, e) = "l"
            THEN SubSeq(d1, 1, RunStart(d1, e - 1, SpaceChars) - 1) ELSE d1, LAMBDA d2 :
       With(IF StartsWith(d2, "+")
            THEN SubSeq(d2, RunEnd(d2, 2, SpaceChars) + 1, Len(d2)) ELSE d2, LAMBDA desc :
       With(Upper(desc), LAMBDA up :
       With(txn.is_credit
              \/ ContainsAny(up, {"SURCHARGE WAIVER", "REVERSAL", "REFUND"})
              \/ (Contains(up, "PAYMENT") /\ Contains(up, "RECEIVED")), LAMBDA credit :
         IF desc = "" THEN txns
         ELSE Append(txns,
                Rec(txn.date, desc,
                    IF credit THEN Empty ELSE txn.amount,
                    IF credit THEN txn.amount ELSE Empty,
                    Empty, FirstLedger(HdfcCreditLedgers, desc)))))))))

\* one iteration of `for line in lines` of _process_hdfc_credit_text
HdfcCreditLine(st, raw) ==
  With(Strip(raw), LAMBDA line :
  With(Lower(line), LAMBDA lower :
  With(HdfcCreditDateEnd(line), LAMBDA dm :
  With(HdfcCreditAmtMatches(line), LAMBDA ms :
  LET \* re.match(r'^[+\-]?\s*\d+\s*$', line)
      sign == IF Ch(line, 1) \in SignChars THEN 2 ELSE 1
      countOnly ==
        With(RunEnd(line, sign, SpaceChars) + 1, LAMBDA digits :
          /\ digits <= Len(line)
          /\ Ch(line, digits) \in DigitChars
          /\ AllIn(line, RunEnd(line, digits, DigitChars) + 1, Len(line), SpaceChars))
  IN IF line = "" THEN st
     ELSE IF ContainsAny(lower, {"domestic transaction", "international transaction"})
          THEN [st EXCEPT !.in_tx = TRUE]
     ELSE IF ContainsAny(lower, {"important information", "useful links", "note:",
                                 "benefits on your card", "offers on your card",
                                 "how to read gst"})
          THEN [st EXCEPT !.in_tx = FALSE]
     ELSE IF ContainsAny(lower, {"date & time", "transaction description"}) THEN st
     ELSE IF ~st.in_tx THEN st
     ELSE IF dm # 0
          THEN [Closed(st, FinalizeHdfcCreditTxn(st.cur, st.txns)) EXCEPT
                  !.in_tx = TRUE,
                  !.cur = HdfcCreditAnchor(line, dm)]
     ELSE IF st.cur.some /\ ~ContainsAny(lower, {"page ", "note:", "neucoins"})
          THEN [st EXCEPT
                 !.in_tx = TRUE,
                 !.cur =
                 IF ms.any /\ ~Truthy(st.cur.amount)
                 THEN With(Strip(SubSeq(line, 1, ms.first - 1)), LAMBDA desc_part :
                      [st.cur EXCEPT
                         !.amount = Num(AmountFloat(ms.amount)),
                         !.is_credit = Contains(SubSeq(line, 1,
                                          IF Len(line) < 10 THEN Len(line) ELSE 10), "+"),
                         !.description = IF desc_part # "" THEN @ \o " " \o desc_part ELSE @])
                 ELSE IF ~countOnly THEN AppendLine(st.cur, line)
                 ELSE st.cur]
     ELSE st))))

(***************************************************************************)
(* one_credit.py                                                           *)
(***************************************************************************)
OneCreditLedgers ==
  << <<{"ZOMATO", "SWIGGY", "FOOD"}, "Food & Dining">>,
     <<{"BLINKIT", "GROCERY", "ZEPTO", "BIGBASKET"}, "Groceries">>,
     <<{"AMAZON", "FLIPKART", "MYNTRA"}, "Shopping Online">>,
     <<{"NETFLIX", "SPOTIFY"}, "Entertainment">>,
     <<{"UBER", "OLA", "RAPIDO"}, "Transport">>,
     <<{"PAYMENT", "REFUND"}, "Payment/Refund">> >>

\* position of the first occurrence of k in s (str.find, 1-based), 0 if none
Find(s, k) ==
  With({i \in 1..(Len(s) - Len(k) + 1) : SubSeq(s, i, i + Len(k) - 1) = k}, LAMBDA hits :
    IF hits = {} THEN 0 ELSE CHOOSE i \in hits : \A j \in hits : i <= j)

\* for amt in amounts: desc = desc.replace(amt, '', 1)
RECURSIVE RemoveFirstEach(_, _)
RemoveFirstEach(desc, amounts) ==
  IF amounts = <<>> THEN desc
  ELSE With(Find(desc, Head(amounts)), LAMBDA i :
         RemoveFirstEach(
           IF i = 0 THEN desc
           ELSE SubSeq(desc, 1, i - 1) \o SubSeq(desc, i + Len(Head(amounts)), Len(desc)),
           Tail(amounts)))

\* re.sub(r'\b\d{1,2}\.\d{2}\b', '', s)
RECURSIVE RemoveRewardPoints(_)
RemoveRewardPoints(s) ==
  LET End(i) ==
        With(RunEnd(s, i, DigitChars), LAMBDA e :
          IF /\ Boundary(s, i)
             /\ e - i + 1 \in {1, 2}
             /\ e + 3 <= Len(s)
             /\ Ch(s, e + 1) = "."
             /\ AllIn(s, e + 2, e + 3, DigitChars)
             /\ Boundary(s, e + 4)
          THEN e + 3 ELSE 0)
  IN With({i \in 1..Len(s) : End(i) # 0}, LAMBDA starts :
       IF starts = {} THEN s
       ELSE With(CHOOSE x \in starts : \A y \in starts : x <= y, LAMBDA i :
              SubSeq(s, 1, i - 1) \o RemoveRewardPoints(SubSeq(s, End(i) + 1, Len(s)))))

TransactionTypes == <<"TOKEN_ECOM", "POS", "ECOM", "ATM", "CONTACTLESS">>

\* re.sub(r'\s+(TOKEN_ECOM|POS|ECOM|ATM|CONTACTLESS)\s*', ' ', s,
\*        flags=re.IGNORECASE)
RECURSIVE RemoveTransactionType(_)
RemoveTransactionType(s) ==
  With(Upper(s), LAMBDA up :
    LET \* the type matched at position t, 0 if none
        TypeAt(t) ==
          With({k \in 1..Len(TransactionTypes) :
                  /\ t + Len(TransactionTypes[k]) - 1 <= Len(s)
                  /\ SubSeq(up, t, t + Len(TransactionTypes[k]) - 1) = TransactionTypes[k]},
               LAMBDA ks : IF ks = {} THEN 0 ELSE CHOOSE k \in ks : \A j \in ks : k <= j)
    IN With({i \in 1..Len(s) :
               /\ Ch(s, i) \in SpaceChars
               /\ TypeAt(RunEnd(s, i, SpaceChars) + 1) # 0}, LAMBDA starts :
         IF starts = {} THEN s
         ELSE With(CHOOSE x \in starts : \A y \in starts : x <= y, LAMBDA i :
              With(RunEnd(s, i, SpaceChars) + 1, LAMBDA t :
              With(RunEnd(s, t + Len(TransactionTypes[TypeAt(t)]), SpaceChars), LAMBDA e :
                SubSeq(s, 1, i - 1) \o " "
                  \o RemoveTransactionType(SubSeq(s, e + 1, Len(s))))))))

\* raw.split(desc)[-1] for a non-empty desc
RECURSIVE LastPiece(_, _)
LastPiece(raw, desc) ==
  With(Find(raw, desc), LAMBDA i :
    IF i = 0 THEN raw ELSE LastPiece(SubSeq(raw, i + Len(desc), Len(raw)), desc))

\* the transaction dict built on a dated line by one_credit.py
OneCreditAnchor(line, dm) ==
  With(Strip(SubSeq(line, dm + 1, Len(line))), LAMBDA rest :
  With(AmountsFrom(rest, 1), LAMBDA amounts :
    [NoTxn EXCEPT
       !.some = TRUE,
       !.date = SubSeq(line, 1, dm),
       !.description = CollapseWs(RemoveTransactionType(RemoveRewardPoints(
                         CollapseWs(RemoveFirstEach(rest, amounts))))),
       !.amount = IF amounts # <<>> THEN Num(AmountFloat(amounts[Len(amounts)]))
                  ELSE Num(0),
       !.raw_line = line]))

\* _finalize(txn, transactions) of one_credit.py: the list afterwards
FinalizeOneCredit(txn, txns) ==
  IF txn.amount.n = 0 THEN txns
  ELSE With(CollapseWs(txn.description), LAMBDA desc :
         IF desc = "" THEN txns
         ELSE With(txn.raw_line, LAMBDA raw :
              With(Contains(LastPiece(raw, desc), "-")
                     \/ ContainsAny(Upper(desc), {"REFUND", "REVERSAL", "CASHBACK", "REPAYMENT"})
                     \/ (Contains(raw, "(") /\ Contains(raw, ")")), LAMBDA credit :
                Append(txns,
                  Rec(txn.date, desc,
                      IF credit THEN Empty ELSE txn.amount,
                      IF credit THEN txn.amount ELSE Empty,
                      Empty, FirstLedger(OneCreditLedgers, desc))))))

\* one iteration of `for line in lines` of one_credit._process_text
OneCreditLine(st, raw) ==
  With(Strip(raw), LAMBDA line :
  With(Lower(line), LAMBDA lower :
  With(DayMonEnd(line, FALSE), LAMBDA dm :
  With(AmountsFrom(line, 1), LAMBDA amounts :
  With(StripAmounts(line, amounts), LAMBDA cleaned :
  \* re.match(r'^\d+\.?\d*$', cleaned)
  With(RunEnd(cleaned, 1, DigitChars), LAMBDA d :
  With(IF d + 1 <= Len(cleaned) /\ Ch(cleaned, d + 1) = "." THEN d + 1 ELSE d, LAMBDA p :
  With(d >= 1 /\ AllIn(cleaned, p + 1, Len(cleaned), DigitChars), LAMBDA numeric :
    IF line = "" THEN st
    ELSE IF Contains(lower, "transaction history") THEN [st EXCEPT !.in_tx = TRUE]
    ELSE IF ContainsAny(lower, {"date", "merchant name", "transaction"})
            /\ Contains(lower, "reward")
         THEN st
    ELSE IF ContainsAny(lower, {"total spends", "total repayments", "rewards summary",
                                "interest charged", "contact us", "note:", "important",
                                "page ", "fee summary"})
         THEN [Closed(st, FinalizeOneCredit(st.cur, st.txns)) EXCEPT !.cur = NoTxn]
    ELSE IF ~st.in_tx /\ ~(dm # 0 /\ amounts # <<>>) THEN st
    ELSE IF dm # 0
         THEN [Closed(st, FinalizeOneCredit(st.cur, st.txns)) EXCEPT
                 !.in_tx = TRUE,
                 !.cur = OneCreditAnchor(line, dm)]
    ELSE IF st.cur.some
         THEN [st EXCEPT
                !.in_tx = TRUE,
                !.cur =
                With(IF amounts # <<>> /\ ~Truthy(st.cur.amount)
                     THEN [st.cur EXCEPT
                             !.amount = Num(AmountFloat(amounts[Len(amounts)]))]
                     ELSE st.cur, LAMBDA c1 :
                  IF cleaned # "" /\ ~numeric THEN AppendLine(c1, cleaned) ELSE c1)]
    ELSE st))))))))

(***************************************************************************)
(* parse_<format>: the pages of one statement, line by line                *)
(***************************************************************************)
LineFormats ==
  {"yes_credit", "sbi_credit", "hdfc_credit", "indusind_credit", "rbl_credit",
   "one_credit"}

\* the loop body of the format's _process_*_text
LineOf(f, st, raw) ==
  CASE f = "yes_credit" -> YesCreditLine(st, raw)
    [] f = "sbi_credit" -> SbiCreditLine(st, raw)
    [] f = "hdfc_credit" -> HdfcCreditLine(st, raw)
    [] f = "indusind_credit" -> IndusindCreditLine(st, raw)
    [] f = "rbl_credit" -> RblCreditLine(st, raw)
    [] f = "one_credit" -> OneCreditLine(st, raw)

\* the format's finalize function
FinalizeOf(f, txn, txns) ==
  CASE f = "yes_credit" -> FinalizeYesCreditTxn(txn, txns)
    [] f = "sbi_credit" -> FinalizeSbiCreditTxn(txn, txns)
    [] f = "hdfc_credit" -> FinalizeHdfcCreditTxn(txn, txns)
    [] f = "indusind_credit" -> FinalizeIndusindCredit(txn, txns)
    [] f = "rbl_credit" -> FinalizeRblCreditTxn(txn, txns)
    [] f = "one_credit" -> FinalizeOneCredit(txn, txns)

\* the locals of the running _process_*_text call and the output list
ScanState ==
  [in_tx |-> in_transactions, cur |-> current_txn, txns |-> transactions,
   finalized |-> finalized]

\* Lines a statement page is made of: the section markers of the format, an
\* anchor with description and amount, a zero-amount anchor, an anchor with
\* no description, one with a debit suffix, one with no amount, and
\* continuation, amount-only and footer lines
StartLine(f) ==
  CASE f = "hdfc_credit" -> "Domestic Transactions"
    [] f = "one_credit" -> "Transaction History"
    [] OTHER -> "Date Transaction Details"

StopLine(f) ==
  IF f \in {"sbi_credit", "hdfc_credit"} THEN "Important Information"
  ELSE "Important Message"

Dates(f) ==
  IF f = "one_credit" THEN <<"01 Apr", "02 Apr", "03 Apr", "04 Apr">>
  ELSE <<"01/04/2024", "02/04/2024", "03/04/2024", "04/04/2024">>

LinesFor(f) ==
  { StartLine(f),
    StopLine(f),
    Dates(f)[1] \o " AMAZON ONLINE 450.00",
    Dates(f)[1] \o " REVERSAL 0.00",
    Dates(f)[2] \o " 450.00",
    Dates(f)[3] \o " REFUND 200.00 Dr",
    Dates(f)[4] \o " SWIGGY ORDER",
    "PURCHASE REF 99123",
    "250.00 CR",
    "Page 1 of 2" }
  \cup (IF f = "hdfc_credit" THEN {"05/04/2024| 12:30 ZOMATO + 12 C 541.30"} ELSE {})

\* number of lines read so far, all pages together
RECURSIVE TotalLen(_)
TotalLen(pages) == IF pages = <<>> THEN 0 ELSE Len(Head(pages)) + TotalLen(Tail(pages))

LinesRead == TotalLen(pages_read)

\* for line in lines: one iteration, on the next line of the page
ReadLine ==
  /\ ln_pc = "scan"
  /\ LinesRead < MaxLines
  /\ \E raw \in LinesFor(fmt) :
       \E st \in {LineOf(fmt, ScanState, raw)} :
         /\ in_transactions' = st.in_tx
         /\ current_txn' = st.cur
         /\ transactions' = st.txns
         /\ finalized' = st.finalized
         /\ pages_read' = [pages_read EXCEPT ![Len(pages_read)] = Append(@, raw)]
  /\ UNCHANGED <<fmt, ln_pc>>
  /\ UNCHANGED <<bal_pc, bal_i, running, bal_input, bal_calls, detVars, bankVars, sbiVars, fnVars>>

\* The last line of the page has been read: `if current_txn: finalize(...)`
\* after the loop; _process_*_text returns and is called on the next page
\* with fresh locals
EndPage ==
  /\ ln_pc = "scan"
  /\ pages_read[Len(pages_read)] # <<>>
  /\ Len(pages_read) < MaxLinePages
  /\ \E st \in {Closed(ScanState, FinalizeOf(fmt, current_txn, transactions))} :
       transactions' = st.txns /\ finalized' = st.finalized
  /\ in_transactions' = FALSE
  /\ current_txn' = NoTxn
  /\ pages_read' = Append(pages_read, <<>>)
  /\ UNCHANGED <<fmt, ln_pc>>
  /\ UNCHANGED <<bal_pc, bal_i, running, bal_input, bal_calls, detVars, bankVars, sbiVars, fnVars>>

\* the same on the last page of the document: parse_<format> returns
LastPage ==
  /\ ln_pc = "scan"
  /\ pages_read[Len(pages_read)] # <<>>
  /\ \E st \in {Closed(ScanState, FinalizeOf(fmt, current_txn, transactions))} :
       transactions' = st.txns /\ finalized' = st.finalized
  /\ in_transactions' = FALSE
  /\ current_txn' = NoTxn
  /\ ln_pc' = "done"
  /\ UNCHANGED <<fmt, pages_read>>
  /\ UNCHANGED <<bal_pc, bal_i, running, bal_input, bal_calls, detVars, bankVars, sbiVars, fnVars>>

NextLines == ReadLine \/ EndPage \/ LastPage

\* parse_<format>(filepath) starts: transactions = [], first page
LinesInit ==
  /\ fmt \in LineFormats
  /\ ln_pc = "scan"
  /\ pages_read = << <<>> >>
  /\ in_transactions = FALSE
  /\ current_txn = NoTxn
  /\ finalized = <<>>

\* no line-based extractor runs
LinesIdle ==
  /\ fmt = ""
  /\ ln_pc = "off"
  /\ pages_read = <<>>
  /\ in_transactions = FALSE
  /\ current_txn = NoTxn
  /\ finalized = <<>>

(***************************************************************************)
(* hdfc_bank.py                                                            *)
(***************************************************************************)
WITHDRAWAL_X1 == 470
DEPOSIT_X1 == 548
BALANCE_X1 == 627
COL_TOL == 20
DATE_X0_MAX == 55
DESC_X0_MIN == 66
DESC_X0_MAX == 283
Y_TOLERANCE == 3
CONTINUATION_MAX_GAP == 50

SKIP_KEYWORDS ==
  {"STATEMENTSUMMARY", "OPENINGBALANCE", "CLOSINGBAL", "DRCOUNT", "CRCOUNT",
   "DEBITS", "CREDITS"}

Abs(n) == IF n < 0 THEN 0 - n ELSE n

\* sorted(seq, key=Key): ascending, equal keys keep their order
SortedBy(seq, Key(_)) ==
  LET Pos(i) == Cardinality({j \in 1..Len(seq) :
                               \/ Key(seq[j]) < Key(seq[i])
                               \/ (Key(seq[j]) = Key(seq[i]) /\ j < i)}) + 1
  IN [k \in 1..Len(seq) |-> seq[CHOOSE i \in 1..Len(seq) : Pos(i) = k]]

\* sep.join(parts)
RECURSIVE Join(_, _)
Join(parts, sep) ==
  IF parts = <<>> THEN ""
  ELSE IF Len(parts) = 1 THEN parts[1]
  ELSE parts[1] \o sep \o Join(Tail(parts), sep)

\* the elements of seq at the positions in idx, in order
RECURSIVE Pick(_, _)
Pick(seq, idx) ==
  IF seq = <<>> THEN <<>>
  ELSE Pick(SubSeq(seq, 1, Len(seq) - 1), idx)
         \o (IF Len(seq) \in idx THEN <<seq[Len(seq)]>> ELSE <<>>)

\* _group_words_by_y(words): the rows in the order their keys were inserted,
\* each [key, words]
RECURSIVE GroupFrom(_, _)
GroupFrom(rows, sorted_words) ==
  IF sorted_words = <<>> THEN rows
  ELSE With(Head(sorted_words), LAMBDA w :
       With({k \in 1..Len(rows) : Abs(rows[k].key - w.top) <= Y_TOLERANCE}, LAMBDA hits :
         GroupFrom(IF hits = {}
                   THEN Append(rows, [key |-> w.top, words |-> <<w>>])
                   ELSE [rows EXCEPT ![CHOOSE k \in hits : \A j \in hits : k <= j].words =
                                        Append(@, w)],
                   Tail(sorted_words))))

GroupWordsByY(words) == GroupFrom(<<>>, SortedBy(words, LAMBDA w : w.top))

\* DATE_PAT.match(text): r'^\d{1,2}/\d{1,2}/\d{2,4}$' (word texts hold no
\* line break)
DatePat(text) ==
  With(DayMonthSep(text, 1, "/"), LAMBDA a :
  With(IF a = 0 THEN 0 ELSE DayMonthSep(text, a, "/"), LAMBDA b :
    /\ b # 0
    /\ Len(text) - b + 1 \in 2..4
    /\ AllIn(text, b, Len(text), DigitChars)))

\* re.match(r'^-?\d+\.\d{2}$', clean)
SignedAmount(clean) ==
  With(IF StartsWith(clean, "-") THEN 2 ELSE 1, LAMBDA i :
  With(RunEnd(clean, i, DigitChars), LAMBDA e :
    /\ e >= i
    /\ e + 3 = Len(clean)
    /\ Ch(clean, e + 1) = "."
    /\ AllIn(clean, e + 2, e + 3, DigitChars)))

\* float(clean) in mills, for a text with SignedAmount(clean)
SignedFloat(clean) ==
  IF StartsWith(clean, "-") THEN 0 - FloatMills(SubSeq(clean, 2, Len(clean)))
  ELSE FloatMills(clean)

\* _determine_ledger of hdfc_bank.py
HdfcBankLedger(description) ==
  With(Upper(description), LAMBDA desc :
    IF ContainsAny(desc, {"UPI", "IMPS", "NEFT", "RTGS"})
    THEN (IF ContainsAny(desc, {"ZOMATO", "SWIGGY"}) THEN "Food & Dining"
          ELSE IF ContainsAny(desc, {"ZERODHA", "GROWW"}) THEN "Investment"
          ELSE IF ContainsAny(desc, {"RECHARGE", "AIRTEL", "JIO"}) THEN "Utilities"
          ELSE "Transfer")
    ELSE IF Contains(desc, "SALARY") THEN "Salary"
    ELSE IF Contains(desc, "INTEREST") THEN "Interest"
    ELSE IF Contains(desc, "ATM") \/ Contains(desc, "CASH") THEN "Cash"
    ELSE IF Contains(desc, "EMI") THEN "EMI/Loan"
    ELSE "General")

\* what the loop `for w in row_words` of a dated row does with the word w
HdfcBankWordRole(w, is_date_word) ==
  With(Strip(w.text), LAMBDA text :
  With(SignedAmount(RemoveChar(text, ",")), LAMBDA amount :
    IF text = "" \/ is_date_word THEN "skip"
    ELSE IF amount /\ Abs(w.x1 - BALANCE_X1) < COL_TOL THEN "balance"
    ELSE IF amount /\ Abs(w.x1 - DEPOSIT_X1) < COL_TOL THEN "deposit"
    ELSE IF amount /\ Abs(w.x1 - WITHDRAWAL_X1) < COL_TOL THEN "withdrawal"
    ELSE IF DESC_X0_MIN <= w.x0 /\ w.x0 <= DESC_X0_MAX THEN "description"
    ELSE "other"))

\* the value the loop leaves in withdrawal, deposit or balance: the float of
\* the last word with that role, '' if there is none
HdfcBankColumn(row_words, role, column) ==
  With({i \in 1..Len(row_words) : role[i] = column}, LAMBDA hits :
    IF hits = {} THEN Empty
    ELSE Num(SignedFloat(RemoveChar(
               Strip(row_words[CHOOSE i \in hits : \A j \in hits : i >= j].text), ","))))

\* one iteration of `for y in sorted(rows.keys())` of parse_hdfc_bank; st is
\* [txns, last_date_y]
HdfcBankRow(st, row) ==
  With(SortedBy(row.words, LAMBDA w : w.x0), LAMBDA row_words :
  With(Join([i \in 1..Len(row_words) |-> RemoveChar(Upper(row_words[i].text), " ")], ""),
       LAMBDA row_text :
  With({i \in 1..Len(row_words) :
          row_words[i].x0 < DATE_X0_MAX /\ DatePat(row_words[i].text)}, LAMBDA dates :
    IF ContainsAny(row_text, SKIP_KEYWORDS) THEN st
    ELSE IF dates # {}
    THEN With(CHOOSE i \in dates : \A j \in dates : i <= j, LAMBDA date_word :
         With([i \in 1..Len(row_words) |-> HdfcBankWordRole(row_words[i], i = date_word)],
              LAMBDA role :
         With(Pick(row_words, {i \in 1..Len(row_words) : role[i] = "description"}),
              LAMBDA desc_words :
         With(Join([i \in 1..Len(desc_words) |-> Strip(desc_words[i].text)], " "),
              LAMBDA description :
           [txns |-> Append(st.txns,
                       Rec(row_words[date_word].text, description,
                           HdfcBankColumn(row_words, role, "withdrawal"),
                           HdfcBankColumn(row_words, role, "deposit"),
                           HdfcBankColumn(row_words, role, "balance"),
                           HdfcBankLedger(description))),
            last_date_y |-> row.key]))))
    ELSE IF /\ st.txns # <<>>
            /\ st.last_date_y > 0
            /\ row.key - st.last_date_y < CONTINUATION_MAX_GAP
    THEN With(Pick(row_words, {i \in 1..Len(row_words) :
                                 /\ DESC_X0_MIN <= row_words[i].x0
                                 /\ row_words[i].x0 <= DESC_X0_MAX}), LAMBDA desc_words :
           IF desc_words = <<>> THEN st
           ELSE [st EXCEPT !.txns[Len(st.txns)].description =
                   @ \o " " \o Join([i \in 1..Len(desc_words) |->
                                       Strip(desc_words[i].text)], " ")])
    ELSE st)))

RECURSIVE HdfcBankRows(_, _)
HdfcBankRows(st, rows) ==
  IF rows = <<>> THEN st ELSE HdfcBankRows(HdfcBankRow(st, Head(rows)), Tail(rows))

\* the body of `for page in pdf.pages` of parse_hdfc_bank for the words
\* extract_words returns: the list afterwards
HdfcBankPage(txns, words) ==
  IF words = <<>> THEN txns
  ELSE HdfcBankRows([txns |-> txns, last_date_y |-> 0 - 999],
                    SortedBy(GroupWordsByY(words), LAMBDA r : r.key)).txns

(***************************************************************************)
(* standard_bank.py                                                        *)
(***************************************************************************)
\* _determine_ledger of standard_bank.py
StandardBankLedger(description) ==
  With(Upper(description), LAMBDA desc :
    IF ContainsAny(desc, {"UPI", "IMPS", "NEFT", "RTGS"})
    THEN (IF ContainsAny(desc, {"SWIGGY", "ZOMATO"}) THEN "Food & Dining"
          ELSE "Transfer")
    ELSE IF Contains(desc, "SALARY") THEN "Salary"
    ELSE IF Contains(desc, "INTEREST") THEN "Interest"
    ELSE IF Contains(desc, "BALANCE FORWARD") THEN "Opening Balance"
    ELSE "General")

\* cells[col] if col < len(cells) else '' (col counts from 0)
CellAt(cells, col) == IF col < Len(cells) THEN cells[col + 1] ELSE ""

\* the column a header row assigns to a role: the last cell whose text holds
\* the role's word and none of the words tested before it; old if none
HeaderRole(cl) ==
  IF Contains(cl, "deposit") THEN "deposit"
  ELSE IF Contains(cl, "withdrawal") THEN "withdrawal"
  ELSE IF Contains(cl, "balance") THEN "balance"
  ELSE IF Contains(cl, "description") THEN "description"
  ELSE ""

HeaderCol(cells, role, old) ==
  With({i \in 1..Len(cells) : HeaderRole(Strip(Lower(cells[i]))) = role}, LAMBDA hits :
    IF hits = {} THEN old ELSE (CHOOSE i \in hits : \A j \in hits : i >= j) - 1)

\* the text taken from an amount column: the cell if, without commas, it is
\* made of digits and dots (r'^[\d.]+$'), '' otherwise
AmountCell(cells, col) ==
  With(Strip(CellAt(cells, col)), LAMBDA cell :
  With(Strip(RemoveChar(CellAt(cells, col), ",")), LAMBDA val :
    IF cell # "" /\ val # "" /\ AllIn(val, 1, Len(val), DigitChars \cup {"."})
    THEN Str(cell) ELSE Empty))

\* one iteration of `for row in table` of _process_table; st holds the list
\* and the locals col_deposit, col_withdrawal, col_balance, col_desc.  A cell
\* that is None reads as ''.
StandardTableRow(st, row) ==
  With([i \in 1..Len(row) |-> Strip(row[i])], LAMBDA cells :
  With(Lower(Join(cells, " ")), LAMBDA combined :
  With(IF cells = <<>> THEN 0 ELSE DayMonYearEnd(cells[1], FALSE, 4, 4), LAMBDA date_match :
    IF Len(row) < 3 THEN st
    ELSE IF Contains(combined, "deposit") \/ Contains(combined, "withdrawal")
    THEN [st EXCEPT !.col_deposit = HeaderCol(cells, "deposit", @),
                    !.col_withdrawal = HeaderCol(cells, "withdrawal", @),
                    !.col_balance = HeaderCol(cells, "balance", @),
                    !.col_desc = HeaderCol(cells, "description", @)]
    ELSE IF ContainsAny(combined, {"date", "value", "cheque", "total"}) /\ date_match = 0
    THEN st
    ELSE IF date_match = 0
    THEN (IF st.txns # <<>> /\ CellAt(cells, st.col_desc) # ""
          THEN [st EXCEPT !.txns[Len(st.txns)].description =
                  @ \o " " \o CellAt(cells, st.col_desc)]
          ELSE st)
    ELSE With(CollapseWs(Strip(CellAt(cells, st.col_desc))), LAMBDA description :
         With(AmountCell(cells, st.col_deposit), LAMBDA credit :
         With(AmountCell(cells, st.col_withdrawal), LAMBDA debit :
         With(AmountCell(cells, st.col_balance), LAMBDA balance :
           IF Contains(Upper(description), "BALANCE FORWARD")
              /\ debit = Empty /\ credit = Empty
           THEN (IF balance # Empty
                 THEN [st EXCEPT !.txns = Append(@,
                         Rec(SubSeq(cells[1], 1, date_match), description, Empty, Empty,
                             balance, "Opening Balance"))]
                 ELSE st)
           ELSE IF description # ""
           THEN [st EXCEPT !.txns = Append(@,
                   Rec(SubSeq(cells[1], 1, date_match), description, debit, credit,
                       balance, StandardBankLedger(description)))]
           ELSE st)))))))

RECURSIVE StandardTableRows(_, _)
StandardTableRows(st, rows) ==
  IF rows = <<>> THEN st
  ELSE StandardTableRows(StandardTableRow(st, Head(rows)), Tail(rows))

\* the rows of the table all read with the indices its headers leave
ProcessTableHeaderAheadMut(table, txns) ==
  With(StandardTableRows([txns |-> txns, col_deposit |-> 4, col_withdrawal |-> 5,
                          col_balance |-> 6, col_desc |-> 2], table), LAMBDA st :
    StandardTableRows([st EXCEPT !.txns = txns], table).txns)

\* _process_table(table, transactions): the list afterwards
ProcessTable(table, txns) ==
  StandardTableRows([txns |-> txns, col_deposit |-> 4, col_withdrawal |-> 5,
                     col_balance |-> 6, col_desc |-> 2], table).txns

\* the branches of _process_text on the amounts of a dated line: the record
\* it keeps in current_txn
StandardTextRecord(date_str, desc, float_amounts) ==
  With(Len(float_amounts), LAMBDA n :
    IF Contains(Upper(desc), "BALANCE FORWARD")
    THEN Rec(date_str, desc, Empty, Empty,
             IF n > 0 THEN Num(float_amounts[n]) ELSE Empty, StandardBankLedger(desc))
    ELSE IF n >= 3
    THEN Rec(date_str, desc,
             IF float_amounts[n - 1] > 0 THEN Num(float_amounts[n - 1]) ELSE Empty,
             IF float_amounts[n - 2] > 0 THEN Num(float_amounts[n - 2]) ELSE Empty,
             Num(float_amounts[n]), StandardBankLedger(desc))
    ELSE IF n = 2
    THEN Rec(date_str, desc, Num(float_amounts[1]), Empty, Num(float_amounts[2]),
             StandardBankLedger(desc))
    ELSE IF n = 1
    THEN Rec(date_str, desc, Empty, Empty, Num(float_amounts[1]), StandardBankLedger(desc))
    ELSE Rec(date_str, desc, Empty, Empty, Empty, StandardBankLedger(desc)))

\* one iteration of `for line in lines` of standard_bank._process_text; st is
\* [txns, cur], cur the list holding current_txn (empty for None)
StandardTextLine(st, raw) ==
  With(Strip(raw), LAMBDA line :
  With(Lower(line), LAMBDA lower :
  With(DayMonYearEnd(line, FALSE, 4, 4), LAMBDA date_match :
    IF line = "" THEN st
    ELSE IF ContainsAny(lower, {"branch", "statement date", "currency", "account type",
                                "account no", "nominee", "branch address", "page "})
    THEN st
    ELSE IF date_match # 0
    THEN With(Strip(SubSeq(line, date_match + 1, Len(line))), LAMBDA rest0 :
         With(DayMonYearEnd(rest0, FALSE, 4, 4), LAMBDA val_match :
         With(IF val_match # 0 THEN Strip(SubSeq(rest0, val_match + 1, Len(rest0)))
              ELSE rest0, LAMBDA rest :
         With(AmountsFrom(rest, 1), LAMBDA amounts :
           [txns |-> st.txns \o st.cur,
            cur |-> <<StandardTextRecord(
                        SubSeq(line, 1, date_match),
                        CollapseWs(RemoveFirstEach(rest, amounts)),
                        [i \in 1..Len(amounts) |-> AmountFloat(amounts[i])])>>]))))
    ELSE IF st.cur # <<>>
    THEN With(StripAmounts(line, AmountsFrom(line, 1)), LAMBDA cleaned :
           IF cleaned # ""
              /\ ~AllIn(cleaned, 1, Len(cleaned), DigitChars \cup SpaceChars \cup {",", "."})
           THEN [st EXCEPT !.cur[1].description = @ \o " " \o cleaned]
           ELSE st)
    ELSE st)))

RECURSIVE StandardTextLines(_, _)
StandardTextLines(st, lines) ==
  IF lines = <<>> THEN st
  ELSE StandardTextLines(StandardTextLine(st, Head(lines)), Tail(lines))

\* standard_bank._process_text(text, transactions) for the lines of text: the
\* list afterwards
ProcessText(lines, txns) ==
  With(StandardTextLines([txns |-> txns, cur |-> <<>>], lines), LAMBDA st :
    st.txns \o st.cur)

(***************************************************************************)
(* yes_bank.py                                                             *)
(***************************************************************************)
\* _determine_ledger of yes_bank.py
YesBankLedger(description) ==
  With(Upper(description), LAMBDA desc :
    IF ContainsAny(desc, {"UPI", "IMPS", "NEFT", "RTGS"})
    THEN (IF ContainsAny(desc, {"ZOMATO", "SWIGGY"}) THEN "Food & Dining"
          ELSE IF ContainsAny(desc, {"ZERODHA", "GROWW"}) THEN "Investment"
          ELSE IF ContainsAny(desc, {"RECHARGE", "AIRTEL", "JIO", "PREPAID"})
          THEN "Utilities"
          ELSE IF ContainsAny(desc, {"NETFLIX", "SPOTIFY", "APPLE"}) THEN "Entertainment"
          ELSE IF ContainsAny(desc, {"PORTER", "CAB", "OLA", "UBER"}) THEN "Transport"
          ELSE IF ContainsAny(desc, {"MEDICINE", "BLOOD TEST", "HOSPITAL"}) THEN "Medical"
          ELSE IF Contains(desc, "FAMILY") THEN "Family Transfer"
          ELSE IF Contains(desc, "CREDIT CARD") THEN "Credit Card Payment"
          ELSE IF Contains(desc, "JEWELLERY") THEN "Shopping"
          ELSE "Transfer")
    ELSE IF Contains(desc, "SALARY") THEN "Salary"
    ELSE IF Contains(desc, "INTEREST") THEN "Interest"
    ELSE IF Contains(desc, "ATM") \/ Contains(desc, "CASH") THEN "Cash"
    ELSE IF Contains(desc, "FUNDS TRF") THEN "Transfer"
    ELSE "General")

\* r'^(\d{1,2}\s+\w{3}\s+\d{4}|\d{1,2}/\d{1,2}/\d{4})': end of the match, 0
\* if none
YesDateEnd(s) ==
  IF DayMonYearEnd(s, FALSE, 4, 4) # 0 THEN DayMonYearEnd(s, FALSE, 4, 4)
  ELSE NumericDateEnd(s, "/")

\* the role a header cell is given by the if/elif chain of _process_yes_table
YesHeaderRole(cl) ==
  IF Contains(cl, "withdrawal") THEN "withdrawal"
  ELSE IF Contains(cl, "deposit") THEN "deposit"
  ELSE IF (Contains(cl, "balance") /\ Contains(cl, "running")) \/ cl = "balance"
  THEN "balance"
  ELSE IF Contains(cl, "description") THEN "description"
  ELSE ""

\* the column a header row leaves in a role: the last cell with that role,
\* old if there is none
YesHeaderCol(cells, role, old) ==
  With({i \in 1..Len(cells) : YesHeaderRole(Strip(Lower(cells[i]))) = role}, LAMBDA hits :
    IF hits = {} THEN old ELSE (CHOOSE i \in hits : \A j \in hits : i >= j) - 1)

\* the text taken from an amount column: the cell if, without commas and
\* spaces, it is made of digits and dots, '' otherwise
YesAmountCell(cells, col) ==
  With(Strip(CellAt(cells, col)), LAMBDA cell :
  With(Strip(RemoveChar(RemoveChar(CellAt(cells, col), ","), " ")), LAMBDA val :
    IF cell # "" /\ val # "" /\ AllIn(val, 1, Len(val), DigitChars \cup {"."})
    THEN Str(cell) ELSE Empty))

\* one iteration of `for row in table` of _process_yes_table; st holds the
\* list and the locals col_withdrawal, col_deposit, col_balance, col_desc
YesTableRow(st, row) ==
  With([i \in 1..Len(row) |-> Strip(row[i])], LAMBDA cells :
  With(Lower(Join(cells, " ")), LAMBDA combined :
  With(IF cells = <<>> THEN 0 ELSE YesDateEnd(cells[1]), LAMBDA date_match :
    IF Len(row) < 4 THEN st
    ELSE IF Contains(combined, "withdrawal") \/ Contains(combined, "deposit")
    THEN [st EXCEPT !.col_withdrawal = YesHeaderCol(cells, "withdrawal", @),
                    !.col_deposit = YesHeaderCol(cells, "deposit", @),
                    !.col_balance = YesHeaderCol(cells, "balance", @),
                    !.col_desc = YesHeaderCol(cells, "description", @)]
    ELSE IF ContainsAny(combined, {"transaction date", "value date", "cheque no",
                                   "opening balance", "closing balance",
                                   "total withdrawal", "total deposit"})
    THEN st
    ELSE IF date_match = 0
    THEN (IF st.txns # <<>> /\ Strip(CellAt(cells, st.col_desc)) # ""
          THEN [st EXCEPT !.txns[Len(st.txns)].description =
                  @ \o " " \o Strip(CellAt(cells, st.col_desc))]
          ELSE st)
    ELSE With(CollapseWs(CellAt(cells, st.col_desc)), LAMBDA description :
           IF description # ""
           THEN [st EXCEPT !.txns = Append(@,
                   Rec(SubSeq(cells[1], 1, date_match), description,
                       YesAmountCell(cells, st.col_withdrawal),
                       YesAmountCell(cells, st.col_deposit),
                       YesAmountCell(cells, st.col_balance),
                       YesBankLedger(description)))]
           ELSE st))))

RECURSIVE YesTableRows(_, _)
YesTableRows(st, rows) ==
  IF rows = <<>> THEN st ELSE YesTableRows(YesTableRow(st, Head(rows)), Tail(rows))

\* _process_yes_table(table, transactions): the list afterwards
ProcessYesTable(table, txns) ==
  YesTableRows([txns |-> txns, col_withdrawal |-> 4, col_deposit |-> 5,
                col_balance |-> 6, col_desc |-> 3], table).txns

\* _is_debit_yes(description)
IsDebitYes(description) ==
  With(Upper(description), LAMBDA desc :
    IF ContainsAny(desc, {"WITHDRAWAL", "DEBIT", "PAID", "TRANSFER TO", "FUNDS TRF TO",
                          "PURCHASE", "POS", "ATM", "NACH"})
    THEN TRUE
    ELSE IF ContainsAny(desc, {"DEPOSIT", "CREDIT", "RECEIVED", "TRANSFER FROM", "SALARY",
                               "INTEREST", "REFUND", "REVERSAL", "CASHBACK"})
    THEN FALSE
    ELSE TRUE)

\* the branches of _process_yes_text on the amounts of a dated line: the
\* record it keeps in current_txn
YesTextRecord(date_str, desc, float_amounts) ==
  With(Len(float_amounts), LAMBDA n :
    IF n >= 3
    THEN Rec(date_str, desc,
             IF float_amounts[n - 2] > 0 THEN Num(float_amounts[n - 2]) ELSE Empty,
             IF float_amounts[n - 1] > 0 THEN Num(float_amounts[n - 1]) ELSE Empty,
             Num(float_amounts[n]), YesBankLedger(desc))
    ELSE IF n = 2
    THEN (IF IsDebitYes(desc)
          THEN Rec(date_str, desc, Num(float_amounts[1]), Empty, Num(float_amounts[2]),
                   YesBankLedger(desc))
          ELSE Rec(date_str, desc, Empty, Num(float_amounts[1]), Num(float_amounts[2]),
                   YesBankLedger(desc)))
    ELSE IF n = 1
    THEN Rec(date_str, desc, Empty, Empty, Num(float_amounts[1]), YesBankLedger(desc))
    ELSE Rec(date_str, desc, Empty, Empty, Empty, YesBankLedger(desc)))

\* one iteration of `for line in lines` of _process_yes_text; st is
\* [txns, cur], cur the list holding current_txn (empty for None)
YesTextLine(st, raw) ==
  With(Strip(raw), LAMBDA line :
  With(Lower(line), LAMBDA lower :
  With(YesDateEnd(line), LAMBDA date_match :
    IF line = "" THEN st
    ELSE IF ContainsAny(lower, {"transaction date", "value date", "cheque no",
                                "customer id", "primary account", "nominee", "a/c opening",
                                "account variant", "joint holder", "opening balance:",
                                "total withdrawals", "total deposits", "closing balance:",
                                "od limit", "please review", "mandatory disclaimer",
                                "transaction codes", "reward points"})
    THEN st
    ELSE IF date_match # 0
    THEN With(Strip(SubSeq(line, date_match + 1, Len(line))), LAMBDA rest0 :
         With(YesDateEnd(rest0), LAMBDA val_match :
         With(IF val_match # 0 THEN Strip(SubSeq(rest0, val_match + 1, Len(rest0)))
              ELSE rest0, LAMBDA rest :
         With(AmountsFrom(rest, 1), LAMBDA amounts :
           [txns |-> st.txns \o st.cur,
            cur |-> <<YesTextRecord(
                        SubSeq(line, 1, date_match),
                        CollapseWs(RemoveFirstEach(rest, amounts)),
                        [i \in 1..Len(amounts) |-> AmountFloat(amounts[i])])>>]))))
    ELSE IF st.cur # <<>>
    THEN With(StripAmounts(line, AmountsFrom(line, 1)), LAMBDA cleaned :
           IF cleaned # ""
              /\ ~AllIn(cleaned, 1, Len(cleaned), DigitChars \cup SpaceChars \cup {",", "."})
           THEN [st EXCEPT !.cur[1].description = @ \o " " \o cleaned]
           ELSE st)
    ELSE st)))

RECURSIVE YesTextLines(_, _)
YesTextLines(st, lines) ==
  IF lines = <<>> THEN st ELSE YesTextLines(YesTextLine(st, Head(lines)), Tail(lines))

\* _process_yes_text(text, transactions) for the lines of text: the list
\* afterwards
ProcessYesText(lines, txns) ==
  With(YesTextLines([txns |-> txns, cur |-> <<>>], lines), LAMBDA st :
    st.txns \o st.cur)

\* the body of `for page in pdf.pages` of parse_yes_bank for a page with the
\* tables `tables` and the text lines `lines`: the list afterwards
RECURSIVE ProcessYesTables(_, _)
ProcessYesTables(tables, txns) ==
  IF tables = <<>> THEN txns
  ELSE ProcessYesTables(Tail(tables), ProcessYesTable(Head(tables), txns))

YesBankPage(txns, tables, lines) ==
  With(ProcessYesTables(tables, txns), LAMBDA after :
    IF after = <<>> THEN ProcessYesText(lines, after) ELSE after)

(***************************************************************************)
(* parse_hdfc_bank, parse_standard_bank: the pages of one statement        *)
(***************************************************************************)
\* a word of a row as it is laid out: text, left and right edge, and its
\* offset below the top of the row
Word(text, x0, x1, dy) == [text |-> text, x0 |-> x0, x1 |-> x1, dy |-> dy]

\* Rows an HDFC statement page is made of: a withdrawal, a deposit (its words
\* out of order), a row with an amount in both columns, a dated row with no
\* amount, one with a zero amount, a continuation row and a summary row
HdfcBankRowShapes ==
  { <<Word("01/04/2024", 34, 75, 0), Word("UPI-ZOMATO", 70, 150, 0),
      Word("0000123", 290, 340, 0), Word("450.00", 440, 470, 1),
      Word("10,450.00", 585, 627, 1)>>,
    <<Word("SALARY APRIL", 70, 160, 0), Word("02/04/2024", 34, 75, 0),
      Word("11,650.00", 585, 627, 1), Word("1,200.00", 510, 548, 1)>>,
    <<Word("03/04/2024", 34, 75, 0), Word("NEFT TRANSFER", 70, 170, 0),
      Word("450.00", 440, 470, 0), Word("1,200.00", 510, 548, 0)>>,
    <<Word("04/04/2024", 34, 75, 0), Word("ATM CASH", 70, 130, 0)>>,
    <<Word("05/04/2024", 34, 75, 0), Word("INTEREST", 70, 130, 0),
      Word("0.00", 445, 470, 0)>>,
    <<Word(" PAYMENT REF 99123", 70, 200, 0)>>,
    <<Word("Statement Summary", 34, 140, 0)>> }

\* distance between the tops of consecutive rows: rows that merge into one
\* group, rows a continuation reaches over, rows too far apart
RowGaps == {2, 20, 60}

\* page.extract_words(...) for a page showing the rows `rows`, `gap` apart
RECURSIVE PageWords(_, _)
PageWords(rows, gap) ==
  IF rows = <<>> THEN <<>>
  ELSE PageWords(SubSeq(rows, 1, Len(rows) - 1), gap)
         \o [i \in 1..Len(rows[Len(rows)]) |->
               [text |-> rows[Len(rows)][i].text,
                x0 |-> rows[Len(rows)][i].x0,
                x1 |-> rows[Len(rows)][i].x1,
                top |-> 100 + (Len(rows) - 1) * gap + rows[Len(rows)][i].dy]]

\* Rows of a Standard Chartered table: the header, a deposit, a withdrawal, a
\* row with both cells filled, a dated row with neither, the balance brought
\* forward, a continuation row, a row whose deposit cell is no number, a
\* header whose columns stand in another order and the balance brought
\* forward with an empty balance cell
StandardTableRowShapes ==
  { <<"Date", "Value Date", "Description", "Cheque", "Deposit", "Withdrawal", "Balance">>,
    <<"01 Apr 2024", "01 Apr 2024", "SALARY APRIL", "", "1,200.00", "", "11,650.00">>,
    <<"02 Apr 2024", "02 Apr 2024", "UPI ZOMATO", "", "", "450.00", "11,200.00">>,
    <<"03 Apr 2024", "", "NEFT  TRANSFER", "", "1,200.00", "450.00", "11,950.00">>,
    <<"04 Apr 2024", "", "ATM CASH", "", "", "", "11,950.00">>,
    <<"01 Apr 2024", "", "BALANCE FORWARD", "", "", "", "10,450.00">>,
    <<"", "", "PAYMENT REF 99123", "", "", "", "">>,
    <<"05 Apr 2024", "", "IMPS REFUND", "", "1.2.3", "", "11,950.00">>,
    <<"Date", "Description", "Value Date", "Cheque", "Withdrawal", "Deposit", "Balance">>,
    <<"01 Apr 2024", "", "BALANCE FORWARD", "", "", "", "">> }

\* Lines of a Standard Chartered page that has no table
StandardTextShapes ==
  { "01 Apr 2024 01 Apr 2024 SALARY APRIL 1,200.00 0.00 11,650.00",
    "02 Apr 2024 UPI ZOMATO 450.00 11,200.00",
    "03 Apr 2024 NEFT TRANSFER 1,200.00 450.00 11,950.00",
    "04 Apr 2024 ATM CASH",
    "01 Apr 2024 BALANCE FORWARD 10,450.00",
    "PAYMENT REF 99123",
    "Page 1 of 2" }

\* Rows of a Yes Bank table: the header, a header whose columns stand in
\* another order, a withdrawal, a deposit (dates with slashes), a dated row
\* with an empty description cell, a continuation row that names a merchant
\* and a summary row
YesTableRowShapes ==
  { <<"Transaction Date", "Value Date", "Cheque No/Reference No", "Description",
      "Withdrawals", "Deposits", "Running Balance">>,
    <<"Date", "Description", "Reference No", "Value", "Deposits", "Withdrawals", "Balance">>,
    <<"01 Apr 2024", "01 Apr 2024", "", "IMPS PAYMENT", "450.00", "", "10,000.00">>,
    <<"02/04/2024", "02/04/2024", "", "NEFT SALARY", "", "1,200.00", "11,200.00">>,
    <<"03 Apr 2024", "", "REF123", "", "", "", "11,200.00">>,
    <<"", "", "", "ZOMATO REF 99123", "", "", "">>,
    <<"Opening Balance", "", "", "", "", "", "10,000.00">> }

\* Lines of a Yes Bank page that has no table
YesTextShapes ==
  { "01 Apr 2024 01 Apr 2024 IMPS PAYMENT 450.00 10,000.00",
    "02/04/2024 NEFT SALARY 1,200.00 11,200.00",
    "03 Apr 2024 CASH DEPOSIT 500.00 0.00 11,700.00",
    "ZOMATO REF 99123",
    "Opening Balance: 10,000.00" }

\* page.extract_text() of a page that shows the table `table`: one line for
\* each row, its cells one after the other
TableText(table) == [i \in 1..Len(table) |-> Join(table[i], " ")]

RECURSIVE RowsOn(_)
RowsOn(pages) ==
  IF pages = <<>> THEN 0 ELSE Len(Head(pages).rows) + RowsOn(Tail(pages))

\* one iteration of `for page in pdf.pages` of parse_hdfc_bank
HdfcBankReadPage ==
  /\ bank_fmt = "hdfc_bank"
  /\ bank_pc = "scan"
  /\ Len(bank_pages) < MaxBankPages
  /\ \E rows \in SeqsUpTo(HdfcBankRowShapes, MaxBankRows - RowsOn(bank_pages)) :
       \E gap \in RowGaps :
         /\ bank_pages' = Append(bank_pages, [kind |-> "words", rows |-> rows, gap |-> gap])
         /\ transactions' = HdfcBankPage(transactions, PageWords(rows, gap))
  /\ UNCHANGED <<bank_fmt, bank_pc>>
  /\ UNCHANGED <<bal_pc, bal_i, running, bal_input, bal_calls, detVars, lineVars, sbiVars, fnVars>>

\* one iteration of `for page in pdf.pages` of parse_standard_bank: a page
\* with one table, or a page with no table and its text
StandardBankReadPage ==
  /\ bank_fmt = "standard_bank"
  /\ bank_pc = "scan"
  /\ Len(bank_pages) < MaxBankPages
  /\ \/ \E table \in SeqsUpTo(StandardTableRowShapes, MaxBankRows - RowsOn(bank_pages)) :
          /\ bank_pages' = Append(bank_pages, [kind |-> "table", rows |-> table, gap |-> 0])
          /\ transactions' = ProcessTable(table, transactions)
     \/ \E lines \in SeqsUpTo(StandardTextShapes, MaxBankRows - RowsOn(bank_pages)) :
          /\ bank_pages' = Append(bank_pages, [kind |-> "text", rows |-> lines, gap |-> 0])
          /\ transactions' = ProcessText(lines, transactions)
  /\ UNCHANGED <<bank_fmt, bank_pc>>
  /\ UNCHANGED <<bal_pc, bal_i, running, bal_input, bal_calls, detVars, lineVars, sbiVars, fnVars>>

\* one iteration of `for page in pdf.pages` of parse_yes_bank: a page with
\* one table (and the text that shows it), or a page with no table
YesBankReadPage ==
  /\ bank_fmt = "yes_bank"
  /\ bank_pc = "scan"
  /\ Len(bank_pages) < MaxBankPages
  /\ \/ \E table \in SeqsUpTo(YesTableRowShapes, MaxBankRows - RowsOn(bank_pages)) :
          /\ bank_pages' = Append(bank_pages, [kind |-> "table", rows |-> table, gap |-> 0])
          /\ transactions' = YesBankPage(transactions, <<table>>, TableText(table))
     \/ \E lines \in SeqsUpTo(YesTextShapes, MaxBankRows - RowsOn(bank_pages)) :
          /\ bank_pages' = Append(bank_pages, [kind |-> "text", rows |-> lines, gap |-> 0])
          /\ transactions' = YesBankPage(transactions, <<>>, lines)
  /\ UNCHANGED <<bank_fmt, bank_pc>>
  /\ UNCHANGED <<bal_pc, bal_i, running, bal_input, bal_calls, detVars, lineVars, sbiVars, fnVars>>

\* `return transactions` after the last page
BankReturn ==
  /\ bank_pc = "scan"
  /\ bank_pc' = "done"
  /\ UNCHANGED <<transactions, bank_fmt, bank_pages>>
  /\ UNCHANGED <<bal_pc, bal_i, running, bal_input, bal_calls, detVars, lineVars, sbiVars, fnVars>>

NextBank == HdfcBankReadPage \/ StandardBankReadPage \/ YesBankReadPage \/ BankReturn

BankFormats == {"hdfc_bank", "standard_bank", "yes_bank"}

\* parse_<format>(filepath) starts: transactions = []
BankInit ==
  /\ bank_fmt \in BankFormats
  /\ bank_pc = "scan"
  /\ bank_pages = <<>>

\* no bank-account extractor runs
BankIdle ==
  /\ bank_fmt = ""
  /\ bank_pc = "off"
  /\ bank_pages = <<>>

(***************************************************************************)
(* sbi_bank.py.  Coordinates are counted in tenths of a point: 414.4 is     *)
(* 4144.                                                                   *)
(***************************************************************************)
DEFAULT_DEBIT_X1 == 4144
DEFAULT_CREDIT_X1 == 4778
DEFAULT_BALANCE_X1 == 5570
COL_TOLERANCE == 150

\* round(t) of a coordinate t >= 0 given in tenths: to the nearest integer,
\* a half to the even one
Round(t) ==
  With(t \div 10, LAMBDA q :
    IF t % 10 < 5 THEN q
    ELSE IF t % 10 > 5 THEN q + 1
    ELSE IF q % 2 = 0 THEN q ELSE q + 1)

\* min(diffs, key=lambda d: d[1])[0]: the first of the columns at the
\* smallest distance; diffs is a sequence of [col, d]
MinDiffLastMut(diffs) ==
  diffs[CHOOSE i \in 1..Len(diffs) :
          /\ \A j \in 1..Len(diffs) : diffs[i].d <= diffs[j].d
          /\ \A j \in (i + 1)..Len(diffs) : diffs[j].d # diffs[i].d]
MinDiff(diffs) ==
  diffs[CHOOSE i \in 1..Len(diffs) :
          /\ \A j \in 1..Len(diffs) : diffs[i].d <= diffs[j].d
          /\ \A j \in 1..(i - 1) : diffs[j].d # diffs[i].d]

\* _classify_col(x1, debit_x1, credit_x1, balance_x1); "" for None
ClassifyCol(x1, debit_x1, credit_x1, balance_x1) ==
  With(MinDiff(<<[col |-> "debit", d |-> Abs(x1 - debit_x1)],
                 [col |-> "credit", d |-> Abs(x1 - credit_x1)],
                 [col |-> "balance", d |-> Abs(x1 - balance_x1)]>>), LAMBDA best :
    IF best.d <= COL_TOLERANCE THEN best.col ELSE "")

\* re.match(r'^\d+\.\d{2}$', cleaned)
PlainAmount(cleaned) ==
  With(RunEnd(cleaned, 1, DigitChars), LAMBDA e :
    /\ e >= 1
    /\ e + 3 = Len(cleaned)
    /\ Ch(cleaned, e + 1) = "."
    /\ AllIn(cleaned, e + 2, e + 3, DigitChars))

\* _is_amount(text)
IsAmountText(text) == PlainAmount(Strip(RemoveChar(text, ",")))

\* _determine_ledger of sbi_bank.py
SbiBankLedger(description) ==
  With(Upper(description), LAMBDA desc :
    IF ContainsAny(desc, {"UPI", "IMPS", "NEFT", "RTGS"})
    THEN (IF ContainsAny(desc, {"ZOMATO", "SWIGGY", "FOOD"}) THEN "Food & Dining"
          ELSE IF ContainsAny(desc, {"NETFLIX", "SPOTIFY", "AMAZON PRIME", "HOTSTAR"})
          THEN "Entertainment"
          ELSE IF ContainsAny(desc, {"ZERODHA", "GROWW", "ANGEL", "BROKER"})
          THEN "Investment"
          ELSE IF ContainsAny(desc, {"ELECTRICITY", "WATER", "GAS", "BROADBAND",
                                     "AIRTEL", "JIO", "RECHARGE"})
          THEN "Utilities"
          ELSE IF ContainsAny(desc, {"INSURANCE", "LIC", "POLICY"}) THEN "Insurance"
          ELSE IF Contains(desc, "RENT") THEN "Rent"
          ELSE IF ContainsAny(desc, {"SBI CARD", "CREDIT CARD", "CC PAYMENT",
                                     "SBICARDSAN"})
          THEN "Credit Card Payment"
          ELSE "Transfer")
    ELSE IF Contains(desc, "SALARY") \/ Contains(desc, "SAL") THEN "Salary"
    ELSE IF Contains(desc, "INTEREST") \/ Contains(desc, "INT.COLL") THEN "Interest"
    ELSE IF Contains(desc, "ATM") \/ Contains(desc, "CASH") THEN "Cash"
    ELSE IF Contains(desc, "EMI") THEN "EMI/Loan"
    ELSE IF ContainsAny(desc, {"TAX", "GST", "TDS"}) THEN "Tax"
    ELSE "General")

\* the header scan `for w in words` (lines 56-64); prof is
\* [debit_x1, credit_x1, balance_x1, header_y], header_y = -1 for None
RECURSIVE SbiHeader(_, _)
SbiHeader(prof, words) ==
  IF words = <<>> THEN prof
  ELSE With(Head(words), LAMBDA w :
       With(Lower(Strip(w.text)), LAMBDA t :
         SbiHeader(IF t = "debit" /\ w.x0 > 3500
                   THEN [prof EXCEPT !.debit_x1 = w.x1, !.header_y = Round(w.top)]
                   ELSE IF t = "credit" /\ w.x0 > 4000
                   THEN [prof EXCEPT !.credit_x1 = w.x1]
                   ELSE IF t = "balance" /\ w.x0 > 4800
                   THEN [prof EXCEPT !.balance_x1 = w.x1]
                   ELSE prof,
                   Tail(words))))

\* rows.setdefault(round(w['top']), []).append(w) for every word: the rows as
\* [key, words], by ascending key (the order `sorted(rows.keys())` visits)
RowsByRoundedTop(words) ==
  With({Round(words[i].top) : i \in 1..Len(words)}, LAMBDA keys :
    SortedBy([k \in 1..Cardinality(keys) |->
                With(CHOOSE y \in keys : Cardinality({z \in keys : z < y}) = k - 1,
                     LAMBDA y :
                  [key |-> y,
                   words |-> Pick(words, {i \in 1..Len(words) : Round(words[i].top) = y})])],
             LAMBDA r : r.key))

\* skip_re (lines 77-84), searched without regard to case
SbiSkipPhrases ==
  {"txn date", "value date", "account name", "account number",
   "account description", "branch", "drawing power", "interest rate",
   "mod balance", "cif no", "ckycr", "ifs code", "micr", "nomination",
   "balance as on", "account statement", "please do not", "computer generated",
   "indian financial", "magnetic ink", "page no", "address", "opening balance",
   "closing balance", "lien amount"}

MonthNames ==
  {"jan", "feb", "mar", "apr", "may", "jun", "jul", "aug", "sep", "oct", "nov", "dec"}

\* date_re.match(t): r'^\d{1,2}$'
DayText(t) == Len(t) \in {1, 2} /\ AllIn(t, 1, Len(t), DigitChars)
\* re.match(r'^\d{4}$', t)
YearText(t) == Len(t) = 4 /\ AllIn(t, 1, 4, DigitChars)
\* t.lower()[:3] in month_names
MonthText(t) == Lower(SubSeq(t, 1, IF Len(t) < 3 THEN Len(t) ELSE 3)) \in MonthNames

\* re.sub(r'\(cid:\d+\)', '', s)
RECURSIVE RemoveCid(_)
RemoveCid(s) ==
  With({i \in 1..(Len(s) - 6) :
          /\ SubSeq(s, i, i + 4) = "(cid:"
          /\ With(RunEnd(s, i + 5, DigitChars), LAMBDA e :
               e >= i + 5 /\ e + 1 <= Len(s) /\ Ch(s, e + 1) = ")")}, LAMBDA hits :
    IF hits = {} THEN s
    ELSE With(CHOOSE i \in hits : \A j \in hits : i <= j, LAMBDA i :
           SubSeq(s, 1, i - 1)
             \o RemoveCid(SubSeq(s, RunEnd(s, i + 5, DigitChars) + 2, Len(s)))))

\* amounts.get(column, ''): the text of the last word classified as column
SbiColumn(rw, role, column) ==
  With({i \in 1..Len(rw) : role[i] = column}, LAMBDA hits :
    IF hits = {} THEN Empty
    ELSE Str(Strip(rw[CHOOSE i \in hits : \A j \in hits : i >= j].text)))

\* the date loop over non_amount_words (lines 134-147) from index idx on;
\* acc is [parts, consumed, last_year, done]
RECURSIVE SbiDateScan(_, _, _)
SbiDateScan(acc, naw, idx) ==
  IF idx > Len(naw) \/ acc.done THEN acc
  ELSE With(Strip(naw[idx].text), LAMBDA t :
         SbiDateScan(
           IF naw[idx].x0 >= 1000 THEN acc
           ELSE IF DayText(t) /\ acc.parts = <<>>
           THEN [acc EXCEPT !.parts = <<t>>, !.consumed = @ \cup {idx}]
           ELSE IF acc.parts # <<>> /\ MonthText(t)
           THEN [acc EXCEPT !.parts = Append(@, t), !.consumed = @ \cup {idx}]
           ELSE IF acc.parts # <<>> /\ YearText(t)
           THEN [acc EXCEPT !.parts = Append(@, t), !.consumed = @ \cup {idx},
                            !.last_year = t, !.done = TRUE]
           ELSE acc,
           naw, idx + 1))

\* what the description loop (lines 162-181) does with non_amount_words[idx]:
\* "year" (last_year is set), "skip" or "desc"
SbiDescRole(w, consumed) ==
  With(Strip(w.text), LAMBDA txt :
    IF consumed THEN "skip"
    ELSE IF w.x0 >= 900 /\ w.x0 < 1450 /\ (DayText(txt) \/ MonthText(txt) \/ YearText(txt))
    THEN (IF YearText(txt) THEN "year" ELSE "skip")
    ELSE IF YearText(txt) /\ w.x0 < 2000 THEN "year"
    ELSE IF w.x0 >= 1300 /\ w.x1 < 3700
            /\ txt \notin {"TO", "BY", "TRANSFER-", "TRANSFER", "FROM"}
    THEN "desc"
    ELSE "skip")

\* the text of the last element of idx in words, dflt when idx is empty
LastText(words, idx, dflt) ==
  IF idx = {} THEN dflt
  ELSE Strip(words[CHOOSE i \in idx : \A j \in idx : i >= j].text)

\* the texts of the words at the positions in idx, stripped and joined
JoinTexts(words, idx) ==
  With(Pick(words, idx), LAMBDA ws :
    Join([i \in 1..Len(ws) |-> Strip(ws[i].text)], " "))

\* a row that holds no classified amount (lines 112-127); st is
\* [txns, last_date, last_year, state_year], state_year being
\* state['last_year']
SbiContinuation(st, rw) ==
  IF st.txns = <<>> THEN st
  ELSE With({i \in 1..Len(rw) : rw[i].x0 > 900 /\ rw[i].x1 < 4000}, LAMBDA zone :
       With({i \in zone : YearText(Strip(rw[i].text)) /\ rw[i].x0 < 2000}, LAMBDA years :
       With(Strip(JoinTexts(rw, zone \ years)), LAMBDA extra :
         [st EXCEPT !.state_year = LastText(rw, years, @),
                    !.txns = IF extra = "" THEN @
                             ELSE [@ EXCEPT ![Len(@)].description = @ \o " " \o extra]])))

\* a row that holds a classified amount (lines 129-194)
SbiTransaction(st, rw, role) ==
  With(Pick(rw, {i \in 1..Len(rw) : role[i] = ""}), LAMBDA naw :
  With(SbiDateScan([parts |-> <<>>, consumed |-> {}, last_year |-> st.last_year,
                    done |-> FALSE], naw, 1), LAMBDA scan :
  With(IF scan.parts = <<>> THEN st.last_date
       ELSE Join(IF Len(scan.parts) = 2 /\ scan.last_year # ""
                 THEN Append(scan.parts, scan.last_year) ELSE scan.parts, " "),
       LAMBDA date_str :
  With([i \in 1..Len(naw) |-> SbiDescRole(naw[i], i \in scan.consumed)], LAMBDA drole :
  With(Strip(RemoveCid(CollapseWs(
         JoinTexts(naw, {i \in 1..Len(naw) : drole[i] = "desc"})))), LAMBDA description :
    [st EXCEPT !.txns = Append(@, Rec(date_str, description,
                                      SbiColumn(rw, role, "debit"),
                                      SbiColumn(rw, role, "credit"),
                                      SbiColumn(rw, role, "balance"),
                                      SbiBankLedger(description))),
               !.last_date = date_str,
               !.last_year = LastText(naw, {i \in 1..Len(naw) : drole[i] = "year"},
                                      scan.last_year)])))))

\* one iteration of `for y in sorted(rows.keys())` of _process_page
SbiRow(st, row, prof) ==
  With(SortedBy(row.words, LAMBDA w : w.x0), LAMBDA rw :
  With(Join([i \in 1..Len(rw) |-> rw[i].text], " "), LAMBDA line_text :
    IF prof.header_y # 0 - 1 /\ row.key <= prof.header_y THEN st
    ELSE IF ContainsAny(Lower(line_text), SbiSkipPhrases) THEN st
    ELSE With([i \in 1..Len(rw) |->
                 IF IsAmountText(Strip(rw[i].text))
                 THEN ClassifyCol(rw[i].x1, prof.debit_x1, prof.credit_x1, prof.balance_x1)
                 ELSE ""], LAMBDA role :
           IF \A i \in 1..Len(rw) : role[i] = ""
           THEN SbiContinuation(st, rw)
           ELSE SbiTransaction(st, rw, role))))

RECURSIVE SbiRows(_, _, _)
SbiRows(st, rows, prof) ==
  IF rows = <<>> THEN st ELSE SbiRows(SbiRow(st, Head(rows), prof), Tail(rows), prof)

\* col_x1 = None
NoProfile == [some |-> FALSE, debit_x1 |-> 0, credit_x1 |-> 0, balance_x1 |-> 0]

\* lines 52-55: `col_x1 if col_x1 else (defaults)`, and header_y = None
StartProfileDefaultsMut(col_x1) ==
  [debit_x1 |-> DEFAULT_DEBIT_X1, credit_x1 |-> DEFAULT_CREDIT_X1,
   balance_x1 |-> DEFAULT_BALANCE_X1, header_y |-> 0 - 1]
StartProfile(col_x1) ==
  IF col_x1.some
  THEN [debit_x1 |-> col_x1.debit_x1, credit_x1 |-> col_x1.credit_x1,
        balance_x1 |-> col_x1.balance_x1, header_y |-> 0 - 1]
  ELSE [debit_x1 |-> DEFAULT_DEBIT_X1, credit_x1 |-> DEFAULT_CREDIT_X1,
        balance_x1 |-> DEFAULT_BALANCE_X1, header_y |-> 0 - 1]

\* _process_page(page, transactions, col_x1, state) for the words
\* extract_words returns; call is [transactions, col_x1, state], state being
\* [last_date, last_year]
SbiProcessPage(call, words) ==
  IF words = <<>> THEN call
  ELSE With(SbiHeader(StartProfile(call.col_x1), words), LAMBDA prof :
       With(SbiRows([txns |-> call.transactions, last_date |-> call.state.last_date,
                     last_year |-> call.state.last_year,
                     state_year |-> call.state.last_year],
                    RowsByRoundedTop(words), prof), LAMBDA st :
         [transactions |-> st.txns,
          col_x1 |-> [some |-> TRUE, debit_x1 |-> prof.debit_x1,
                      credit_x1 |-> prof.credit_x1, balance_x1 |-> prof.balance_x1],
          state |-> [last_date |-> st.last_date, last_year |-> st.last_year]]))

\* footer_re (lines 28-33): the alternatives, lower case; 'page \d' is "page "
\* and a digit
FooterPhrases ==
  {"bank never asks", "do not share", "computer generated", "disclaimer",
   "helpline", "customer care", "toll free", "ref no./cheque", "date no."}
FooterAt(s, low, i) ==
  /\ Boundary(s, i)
  /\ \/ \E p \in FooterPhrases :
          /\ i + Len(p) - 1 <= Len(s)
          /\ SubSeq(low, i, i + Len(p) - 1) = p
          /\ Boundary(s, i + Len(p))
     \/ /\ i + 5 <= Len(s)
        /\ SubSeq(low, i, i + 4) = "page "
        /\ Ch(s, i + 5) \in DigitChars
        /\ Boundary(s, i + 6)

\* footer_re.sub('', desc): the text before the first match
FooterCut(desc) ==
  With(Lower(desc), LAMBDA low :
  With({i \in 1..Len(desc) : FooterAt(desc, low, i)}, LAMBDA hits :
    IF hits = {} THEN desc
    ELSE SubSeq(desc, 1, (CHOOSE i \in hits : \A j \in hits : i <= j) - 1)))

\* the body of `for txn in transactions` (lines 34-40)
SbiPostProcess(txn) ==
  With(Strip(RemoveCid(Strip(FooterCut(CollapseWs(txn.description))))), LAMBDA desc :
    [txn EXCEPT !.description = desc, !.ledger = SbiBankLedger(desc)])

(***************************************************************************)
(* parse_sbi_bank: two calls, each on its own document, page by page       *)
(***************************************************************************)
SbiWord(text, x0, x1, top) == [text |-> text, x0 |-> x0, x1 |-> x1, top |-> top]

\* page.extract_words(...) of the pages an SBI statement is made of:
\*  - a page with a header line that sets the debit and credit edges 20 points
\*    apart, and a dated withdrawal;
\*  - a page without header: a description-only row with a year at its top, a row with
\*    no year and an amount that ends between the default edges, a dated row
\*    without amount and an amount row without date;
\*  - a page without words
SbiPageShapes ==
  { <<SbiWord("Debit", 3800, 4200, 1000), SbiWord("Credit", 4250, 4400, 1000),
      SbiWord("Balance", 5200, 5570, 1001),
      SbiWord("01", 300, 380, 1200), SbiWord("Apr", 400, 500, 1200),
      SbiWord("2024", 600, 750, 1200), SbiWord("UPI/ZOMATO", 1900, 2600, 1204),
      SbiWord("450.00", 3900, 4200, 1200), SbiWord("10,450.00", 5100, 5570, 1200)>>,
    <<SbiWord("NEFT SALARY", 1300, 2000, 1200), SbiWord("02", 300, 380, 1200),
      SbiWord("May", 400, 500, 1200), SbiWord("1,200.00", 4000, 4310, 1200),
      SbiWord("PAYMENT REF", 1400, 2000, 1100), SbiWord("2023", 1000, 1200, 1100),
      SbiWord("03", 300, 380, 1300), SbiWord("Apr", 400, 500, 1300),
      SbiWord("2024", 600, 750, 1300), SbiWord("ATM CASH", 1400, 2000, 1300),
      SbiWord("IMPS CHARGE", 1400, 2000, 1400), SbiWord("5.00", 3900, 4144, 1400)>>,
    <<>> }

SbiDocs == SeqsUpTo(SbiPageShapes, MaxSbiPages)
SbiCalls == {1, 2}

\* the locals of a call at its start (lines 18-20)
SbiLocals ==
  [pc |-> "scan", page_i |-> 0, transactions |-> <<>>, col_x1 |-> NoProfile,
   state |-> [last_date |-> "", last_year |-> ""]]

\* the col_x1 the call c hands to _process_page (line 24): its own local
ProfileSharedMut(calls, c) == calls[1].col_x1
ProfileOf(calls, c) == calls[c].col_x1

\* one iteration of `for page in pdf.pages` (line 24) of the call c
SbiReadPage(c) ==
  /\ sbi_calls[c].pc = "scan"
  /\ sbi_calls[c].page_i < Len(sbi_docs[c])
  /\ sbi_calls' =
       With(SbiProcessPage([transactions |-> sbi_calls[c].transactions,
                            col_x1 |-> ProfileOf(sbi_calls, c),
                            state |-> sbi_calls[c].state],
                           sbi_docs[c][sbi_calls[c].page_i + 1]), LAMBDA after :
         [sbi_calls EXCEPT ![c] =
            [pc |-> "scan", page_i |-> sbi_calls[c].page_i + 1,
             transactions |-> after.transactions,
             col_x1 |-> after.col_x1, state |-> after.state]])
  /\ UNCHANGED sbi_docs
  /\ UNCHANGED <<balVars, detVars, lineVars, bankVars, fnVars>>

\* lines 26-42 of the call c: the descriptions are cleaned, the list returned
SbiReturn(c) ==
  /\ sbi_calls[c].pc = "scan"
  /\ sbi_calls[c].page_i = Len(sbi_docs[c])
  /\ sbi_calls' = [sbi_calls EXCEPT
                     ![c].pc = "done",
                     ![c].transactions = [i \in 1..Len(@) |-> SbiPostProcess(@[i])]]
  /\ UNCHANGED sbi_docs
  /\ UNCHANGED <<balVars, detVars, lineVars, bankVars, fnVars>>

NextSbi == \E c \in SbiCalls : SbiReadPage(c) \/ SbiReturn(c)

SbiInit ==
  /\ sbi_docs \in [SbiCalls -> SbiDocs]
  /\ sbi_calls = [c \in SbiCalls |-> SbiLocals]

\* parse_sbi_bank not called
SbiIdle ==
  /\ sbi_docs = <<>>
  /\ sbi_calls = <<>>

(***************************************************************************)
(* _determine_ledger of the eleven extractors, as a function of the format  *)
(* and the description                                                     *)
(***************************************************************************)
\* _determine_ledger of rbl_bank.py
RblBankLedger(description) ==
  With(Upper(description), LAMBDA desc :
    IF ContainsAny(desc, {"UPI", "IMPS", "NEFT", "RTGS"})
    THEN (IF ContainsAny(desc, {"SWIGGY", "ZOMATO"}) THEN "Food & Dining"
          ELSE IF ContainsAny(desc, {"NETFLIX", "SPOTIFY", "APPLE"}) THEN "Entertainment"
          ELSE "Transfer")
    ELSE IF Contains(desc, "INT.PD") \/ Contains(desc, "INTEREST") THEN "Interest"
    ELSE IF Contains(desc, "GST") THEN "Fees & Charges"
    ELSE IF Contains(desc, "SMS") \/ Contains(desc, "ALERT") THEN "Fees & Charges"
    ELSE IF Contains(desc, "IMPS CHARGE") THEN "Fees & Charges"
    ELSE "General")

\* the keys of parser_map, one extractor module each
Formats ==
  {"sbi_bank", "sbi_credit", "hdfc_bank", "hdfc_credit", "yes_bank", "yes_credit",
   "rbl_bank", "rbl_credit", "indusind_credit", "one_credit", "standard_bank"}

\* the ordered rules of the _determine_ledger of a credit-card extractor
CreditLedgers(format) ==
  CASE format = "yes_credit" -> YesCreditLedgers
    [] format = "sbi_credit" -> SbiCreditLedgers
    [] format = "indusind_credit" -> IndusindCreditLedgers
    [] format = "rbl_credit" -> RblCreditLedgers
    [] format = "hdfc_credit" -> HdfcCreditLedgers
    [] format = "one_credit" -> OneCreditLedgers

\* _determine_ledger(description) of the module parsers/<format>.py
DetermineLedger(format, description) ==
  CASE format = "sbi_bank" -> SbiBankLedger(description)
    [] format = "hdfc_bank" -> HdfcBankLedger(description)
    [] format = "yes_bank" -> YesBankLedger(description)
    [] format = "rbl_bank" -> RblBankLedger(description)
    [] format = "standard_bank" -> StandardBankLedger(description)
    [] OTHER -> FirstLedger(CreditLedgers(format), description)

\* no function called
FnIdle ==
  /\ fn_name = ""
  /\ fn_args = <<>>
  /\ fn_result = [done |-> FALSE, value |-> ""]

\* Words a description is made of
DescWords ==
  {"UPI", "imps", "ZOMATO", "Swiggy", "SALARY", "AMAZON", "Payment", "REFUND",
   "ATM", "IMPS CHARGE", "Gst", "NETFLIX", "Emi", "XYZ STORE"}

Descriptions == {Join(q, " ") : q \in SeqsUpTo(DescWords, MaxDescWords)}

LedgerInit ==
  /\ fn_name = "_determine_ledger"
  /\ fn_args \in [format : Formats, description : Descriptions]
  /\ fn_result = [done |-> FALSE, value |-> ""]

\* the call returns
LedgerCall ==
  /\ fn_name = "_determine_ledger"
  /\ ~fn_result.done
  /\ fn_result' = [done |-> TRUE,
                   value |-> DetermineLedger(fn_args.format, fn_args.description)]
  /\ UNCHANGED <<fn_name, fn_args>>
  /\ UNCHANGED <<balVars, detVars, lineVars, bankVars, sbiVars>>

NextLedger == LedgerCall

(***************************************************************************)
(* The column of an amount word in the word-position extractors, as a      *)
(* function of the format, the column profile and the word's right edge    *)
(***************************************************************************)
\* rbl_bank.py: the fixed right edges and the tolerance of _process_page_words
RBL_WITHDRAWAL_X1 == 537
RBL_DEPOSIT_X1 == 628
RBL_BALANCE_X1 == 766
RBL_COL_TOL == 25

\* rbl_bank.py lines 84-93: the key under which the amount is stored, "" when
\* the word goes to non_amount_words
RblClassify(x1) ==
  With(MinDiff(<<[col |-> "debit", d |-> Abs(x1 - RBL_WITHDRAWAL_X1)],
                 [col |-> "credit", d |-> Abs(x1 - RBL_DEPOSIT_X1)],
                 [col |-> "balance", d |-> Abs(x1 - RBL_BALANCE_X1)]>>), LAMBDA best :
    IF best.d <= RBL_COL_TOL THEN best.col ELSE "")

\* hdfc_bank.py lines 86-96: the field of the record an amount word with
\* right edge x1 is stored in, "" when it is stored in none
HdfcBankClassify(x1) ==
  With(HdfcBankWordRole(Word("450.00", DESC_X0_MAX + 1, x1, 0), FALSE), LAMBDA role :
    CASE role = "withdrawal" -> "debit"
      [] role = "deposit" -> "credit"
      [] role = "balance" -> "balance"
      [] OTHER -> "")

\* the column profiles a call can work with: <<debit, credit, balance>>.
\* sbi_bank.py has its defaults and whatever a header row calibrates (here
\* the header of the statement page above and one with all three columns
\* close together), in tenths of a point; the other two are fixed, in points
ColumnProfiles(format) ==
  CASE format = "sbi_bank" ->
         { <<DEFAULT_DEBIT_X1, DEFAULT_CREDIT_X1, DEFAULT_BALANCE_X1>>,
           <<4200, 4400, DEFAULT_BALANCE_X1>>,
           <<4200, 4400, 4500>> }
    [] format = "rbl_bank" -> { <<RBL_WITHDRAWAL_X1, RBL_DEPOSIT_X1, RBL_BALANCE_X1>> }
    [] format = "hdfc_bank" -> { <<WITHDRAWAL_X1, DEPOSIT_X1, BALANCE_X1>> }

\* the right edges tried: on, next to and at the tolerance around each
\* column, and between neighbouring columns
RightEdges(profile, tol) ==
  UNION { {p - tol - 1, p - tol, p - tol + 1, p - 1, p, p + 1,
           p + tol - 1, p + tol, p + tol + 1} : p \in {profile[1], profile[2], profile[3]} }
    \cup { (profile[1] + profile[2]) \div 2, (profile[2] + profile[3]) \div 2,
           (profile[1] + profile[3]) \div 2 }

WordFormats == {"sbi_bank", "rbl_bank", "hdfc_bank"}

ToleranceOf(format) ==
  CASE format = "sbi_bank" -> COL_TOLERANCE
    [] format = "rbl_bank" -> RBL_COL_TOL
    [] format = "hdfc_bank" -> COL_TOL

\* the column the format's extractor gives the amount word
ClassifyOf(format, x1, profile) ==
  CASE format = "sbi_bank" -> ClassifyCol(x1, profile[1], profile[2], profile[3])
    [] format = "rbl_bank" -> RblClassify(x1)
    [] format = "hdfc_bank" -> HdfcBankClassify(x1)

ClassifyInit ==
  /\ fn_name = "_classify_col"
  /\ fn_args \in UNION { UNION { { [format |-> f, profile |-> p, x1 |-> x] :
                                     x \in RightEdges(p, ToleranceOf(f)) } :
                                 p \in ColumnProfiles(f) } : f \in WordFormats }
  /\ fn_result = [done |-> FALSE, value |-> ""]

\* the amount word is classified
ClassifyCall ==
  /\ fn_name = "_classify_col"
  /\ ~fn_result.done
  /\ fn_result' = [done |-> TRUE,
                   value |-> ClassifyOf(fn_args.format, fn_args.x1, fn_args.profile)]
  /\ UNCHANGED <<fn_name, fn_args>>
  /\ UNCHANGED <<balVars, detVars, lineVars, bankVars, sbiVars>>

NextClassify == ClassifyCall


(***************************************************************************)
(* The rows the word-position extractors group the words of a page into,   *)
(* as a function of the format and the words                               *)
(***************************************************************************)
MaxWords == 3

\* the rows of the page as [key, words]: _group_words_by_y in hdfc_bank.py,
\* the setdefault loop in sbi_bank.py and rbl_bank.py
GroupRows(format, words) ==
  IF format = "hdfc_bank" THEN GroupWordsByY(words) ELSE RowsByRoundedTop(words)

\* tops of the words of a page: in points for hdfc_bank.py, in tenths of a
\* point for the other two (100.0, 100.4, 100.5, 100.6, 101.5)
TopsOf(format) ==
  IF format = "hdfc_bank" THEN {100, 103, 104, 107}
  ELSE {1000, 1004, 1005, 1006, 1015}

\* the words of a page, in the order extract_words returns them; the text
\* tells them apart
WordsOf(format) ==
  UNION { { [i \in 1..n |-> [text |-> <<"a", "b", "c", "d">>[i], x0 |-> 100 * i,
                             x1 |-> 100 * i + 50, top |-> tops[i]]] :
              tops \in [1..n -> TopsOf(format)] } : n \in 0..MaxWords }

GroupInit ==
  /\ fn_name = "_group_words_by_y"
  /\ fn_args \in UNION { { [format |-> f, words |-> ws] : ws \in WordsOf(f) } :
                           f \in WordFormats }
  /\ fn_result = [done |-> FALSE, value |-> <<>>]

\* the words are grouped
GroupCall ==
  /\ fn_name = "_group_words_by_y"
  /\ ~fn_result.done
  /\ fn_result' = [done |-> TRUE, value |-> GroupRows(fn_args.format, fn_args.words)]
  /\ UNCHANGED <<fn_name, fn_args>>
  /\ UNCHANGED <<balVars, detVars, lineVars, bankVars, sbiVars>>

NextGroup == GroupCall


(***************************************************************************)
(* Specifications                                                          *)
(***************************************************************************)
\* detect_and_parse on one document
Init == DetInit /\ BalIdle /\ LinesIdle /\ BankIdle /\ SbiIdle /\ FnIdle

Next ==
  \/ Open
  \/ SamplePage
  \/ Detect
  \/ DispatchUnknown
  \/ DispatchParser
  \/ AssignSerials
  \/ BalCall
  \/ BalLoop
  \/ Return

Spec == Init /\ [][Next]_vars

\* _fill_running_balance on one record list
InitBalance == BalInit /\ DetIdle /\ LinesIdle /\ BankIdle /\ SbiIdle /\ FnIdle

SpecBalance == InitBalance /\ [][NextBalance]_vars

\* one line-based extractor on one statement
InitLines == LinesInit /\ BalIdle /\ DetIdle /\ BankIdle /\ SbiIdle /\ FnIdle

SpecLines == InitLines /\ [][NextLines]_vars

\* one bank-account extractor on one statement
InitBank == BankInit /\ BalIdle /\ DetIdle /\ LinesIdle /\ SbiIdle /\ FnIdle

SpecBank == InitBank /\ [][NextBank]_vars

\* one table extractor (standard_bank.py, yes_bank.py) on one statement
NextTables == StandardBankReadPage \/ YesBankReadPage \/ BankReturn

InitTables ==
  /\ bank_fmt \in {"standard_bank", "yes_bank"}
  /\ InitBank

SpecTables == InitTables /\ [][NextTables]_vars

\* parse_sbi_bank (sbi_bank.py:16-42), two calls in any interleaving
InitSbi == SbiInit /\ BalIdle /\ DetIdle /\ LinesIdle /\ BankIdle /\ FnIdle

SpecSbi == InitSbi /\ [][NextSbi]_vars

\* _determine_ledger called on a description
InitLedger ==
  LedgerInit /\ BalIdle /\ DetIdle /\ LinesIdle /\ BankIdle /\ SbiIdle

SpecLedger == InitLedger /\ [][NextLedger]_vars

\* the words of one page grouped into rows
InitGroup ==
  GroupInit /\ BalIdle /\ DetIdle /\ LinesIdle /\ BankIdle /\ SbiIdle

SpecGroup == InitGroup /\ [][NextGroup]_vars

\* an amount word classified by its right edge
InitClassify ==
  ClassifyInit /\ BalIdle /\ DetIdle /\ LinesIdle /\ BankIdle /\ SbiIdle

SpecClassify == InitClassify /\ [][NextClassify]_vars

(***************************************************************************)
(* Claims about the balance backfill                                       *)
(***************************************************************************)
\* The amount a debit/credit field stands for: '' counts as 0, a float as
\* itself, an amount text as its decimal value with the thousands commas
\* removed
AmountOf(v) ==
  IF v.t = "num" THEN v.n
  ELSE IF v.s = "" THEN 0
  ELSE FloatMills(RemoveChar(v.s, ","))

IsAmount(v) == v.t = "num" \/ v.s = "" \/ FloatOk(RemoveChar(v.s, ","))

AmountsReadable(txns) ==
  \A i \in 1..Len(txns) : IsAmount(txns[i].debit) /\ IsAmount(txns[i].credit)

\* sum(credit[0..i]) - sum(debit[0..i])
RECURSIVE NetUpTo(_, _)
NetUpTo(txns, i) ==
  IF i = 0 THEN 0
  ELSE NetUpTo(txns, i - 1) + AmountOf(txns[i].credit) - AmountOf(txns[i].debit)

NoBalanceAtAll(txns) == \A i \in 1..Len(txns) : txns[i].balance = Empty

NumericallyZero(v) == IsAmount(v) /\ AmountOf(v) = 0

\* some record has a non-empty, non-zero balance
SomeRealBalance(txns) ==
  \E i \in 1..Len(txns) : txns[i].balance # Empty /\ ~NumericallyZero(txns[i].balance)

Backfilled(before, after) ==
  /\ Len(after) = Len(before)
  /\ \A i \in 1..Len(before) :
       after[i] = [before[i] EXCEPT !.balance = Num(Round2(NetUpTo(before, i)))]

\* C2: when _fill_running_balance has run on a list in which no record
\* carries a balance, every record i holds round(sum of credit[0..i] - sum of
\* debit[0..i], 2), accumulated from zero in list order, '' counted as 0.
C2_BackfillCorrect ==
  (bal_pc = "done" /\ NoBalanceAtAll(bal_input) /\ AmountsReadable(bal_input))
    => Backfilled(bal_input, transactions)

\* C2 witness: the records (100,0),(0,500),(50,0) came out as -100, 400, 350.
C2_Witness ==
  /\ bal_pc = "done"
  /\ Len(bal_input) = 3
  /\ NoBalanceAtAll(bal_input)
  /\ <<bal_input[1].debit, bal_input[2].credit, bal_input[3].debit>>
       = <<Num(100000), Num(500000), Num(50000)>>
  /\ <<transactions[1].balance, transactions[2].balance, transactions[3].balance>>
       = <<Num(-100000), Num(400000), Num(350000)>>

\* C3: a call of _fill_running_balance on a list in which some record has a
\* non-empty, non-zero balance changes no field of any record (the records
\* with an empty balance stay empty), on the first call and on a repeated one.
C3_NoOpWhenBalanceExists ==
  SomeRealBalance(bal_input) => (bal_pc # "loop" /\ transactions = bal_input)

\* C3 witness: the second call has returned on a list that mixes a real
\* balance with an empty one.
C3_Witness ==
  /\ bal_pc = "done"
  /\ bal_calls = 2
  /\ SomeRealBalance(bal_input)
  /\ \E i \in 1..Len(transactions) : transactions[i].balance = Empty

\* C4 (as claimed): whenever every balance of the list is empty or
\* numerically zero, in any stored representation ('' , 0, '0', '0.00'),
\* the call writes the running balance into every record.
C4_TriggerOnAnyZero ==
  ( /\ bal_pc = "done"
    /\ bal_calls = 1
    /\ AmountsReadable(bal_input)
    /\ \A i \in 1..Len(bal_input) :
         bal_input[i].balance = Empty \/ NumericallyZero(bal_input[i].balance) )
    => Backfilled(bal_input, transactions)

(***************************************************************************)
(* Claims about format detection                                           *)
(***************************************************************************)
\* The credit-card formats in the order detect_bank_type declares them
Tier1Order ==
  <<"one_credit", "indusind_credit", "yes_credit", "sbi_credit", "hdfc_credit",
    "rbl_credit">>

Tier1Holds(label, tl, fp) ==
  CASE label = "one_credit" -> T1One(tl)
    [] label = "indusind_credit" -> T1IndusInd(fp)
    [] label = "yes_credit" -> T1Yes(fp)
    [] label = "sbi_credit" -> T1Sbi(fp)
    [] label = "hdfc_credit" -> T1Hdfc(fp)
    [] label = "rbl_credit" -> T1Rbl(fp)

\* label of the first Tier-1 predicate that holds, "" if none does
FirstTier1(tl, fp) ==
  LET hit == {i \in 1..Len(Tier1Order) : Tier1Holds(Tier1Order[i], tl, fp)} IN
    IF hit = {} THEN ""
    ELSE Tier1Order[CHOOSE i \in hit : \A j \in hit : i <= j]

\* the text detect_bank_type reads as the first page
RawFirstPage == IF first_page_text # "" THEN first_page_text ELSE full_text

BankAccountFormats == {"sbi_bank", "yes_bank", "standard_bank", "hdfc_bank", "rbl_bank"}

HasMappedRoutingCode == IfscPrefix(RawFirstPage) \in DOMAIN IfscBankMap

AnyTier3(fp) ==
  \/ /\ (Contains(fp, "state bank") \/ Contains(fp, "sbin"))
     /\ \/ Contains(fp, "account statement")
        \/ Contains(fp, "txn date")
        \/ Contains(fp, "regular sb")
  \/ Contains(fp, "hdfc")
  \/ Contains(fp, "yes bank")
  \/ /\ Contains(fp, "yesb")
     /\ \/ Contains(fp, "saving")
        \/ Contains(fp, "transaction details for your account")
        \/ Contains(fp, "statement of account")
  \/ Contains(fp, "rbl bank") /\ Contains(fp, "account")
  \/ Contains(fp, "standard chartered")
  \/ Contains(fp, "sbi") /\ Contains(fp, "credit limit")

NoTierMatches ==
  /\ FirstTier1(Lower(full_text), Lower(RawFirstPage)) = ""
  /\ ~HasMappedRoutingCode
  /\ ~AnyTier3(Lower(RawFirstPage))

\* C10: for a document that opens and whose sampled text satisfies no Tier-1
\* predicate, holds no mapped routing code and satisfies no Tier-3 predicate,
\* detect_bank_type returns 'unknown' and detect_and_parse returns None with
\* no records, calls no extractor and does not raise.
C10_UnknownFormat ==
  (doc.open = "ok" /\ det_pc = "done" /\ NoTierMatches) =>
    /\ DetectBankType(full_text, first_page_text) = "unknown"
    /\ bank_type \in {"", "unknown"}
    /\ result = "None"
    /\ parser_called = ""
    /\ transactions = <<>>

\* C10 witness: a page of generic prose was labelled unknown and the call
\* returned None.
C10_Witness ==
  /\ det_pc = "done"
  /\ NoTierMatches
  /\ Contains(full_text, "Dear Customer")
  /\ bank_type = "unknown"
  /\ result = "None"
  /\ parser_called = ""

(***************************************************************************)
(* Claims about the line-based extractors                                  *)
(***************************************************************************)
\* the finalize call made by the step, if the step made one
LastFinalized == finalized[Len(finalized)]

\* C6: a candidate whose amount is missing or zero when it is handed to the
\* format's finalize function appends no record and leaves the record list
\* as it was, and the scan goes on: the extractor is still reading unless
\* the call was the one at the end of the last page.
C6_ZeroAmountDropped ==
  [][ ( /\ Len(finalized') = Len(finalized) + 1
        /\ AmountOf(LastFinalized'.txn.amount) = 0 )
      => /\ transactions' = transactions
         /\ LastFinalized'.after = LastFinalized'.before
         /\ (ln_pc' = "scan" \/ pages_read' = pages_read) ]_vars

\* C6 happens: the candidate REVERSAL 0.00 was dropped and a candidate closed
\* after it was emitted
C6_Witness ==
  \E i \in 1..Len(finalized) : \E j \in (i + 1)..Len(finalized) :
    /\ finalized[i].txn.description = "REVERSAL"
    /\ AmountOf(finalized[i].txn.amount) = 0
    /\ finalized[i].after = finalized[i].before
    /\ Len(finalized[j].after) = Len(finalized[j].before) + 1

\* C8 (as claimed): every record an extractor has emitted has a non-empty
\* description.
C8_DescriptionNonEmpty ==
  \A i \in 1..Len(transactions) : transactions[i].description # ""

\* C9 (as claimed): inside the transaction section the anchor line
\* '<date> AMAZON ONLINE 450.00' followed by 'PURCHASE REF 99123' gives
\* exactly one record, with description 'AMAZON ONLINE PURCHASE REF 99123'
\* and debit 450.00.
C9_ContinuationMerge ==
  ( /\ ln_pc = "done"
    /\ pages_read = << <<StartLine(fmt), Dates(fmt)[1] \o " AMAZON ONLINE 450.00",
                         "PURCHASE REF 99123">> >> )
  => /\ Len(transactions) = 1
     /\ transactions[1].date = Dates(fmt)[1]
     /\ transactions[1].description = "AMAZON ONLINE PURCHASE REF 99123"
     /\ transactions[1].debit = Num(450000)
     /\ transactions[1].credit = Empty

(***************************************************************************)
(* Claims about the bank-account extractors                                *)
(***************************************************************************)
\* C5 (as claimed): no record an extractor has emitted has both a non-empty
\* debit and a non-empty credit, rows with an amount in the withdrawal and
\* in the deposit column and table rows with both cells filled included.
C5_DebitCreditExclusive ==
  \A i \in 1..Len(transactions) :
    ~(transactions[i].debit # Empty /\ transactions[i].credit # Empty)

\* C7 (as claimed): every record a bank-account extractor has emitted, the
\* reserved Opening Balance record aside, carries a debit or a credit that
\* is non-empty and not zero; so a dated row with no amount in a debit or
\* credit column has given no record.
C7_NonZeroAmount ==
  \A i \in 1..Len(transactions) :
    transactions[i].ledger # "Opening Balance"
      => \/ ~NumericallyZero(transactions[i].debit)
         \/ ~NumericallyZero(transactions[i].credit)

(***************************************************************************)
(* Claims about detect_and_parse                                           *)
(***************************************************************************)
\* the text of the pages detect_and_parse samples is empty or white space
RECURSIVE AllBlank(_)
AllBlank(pages) ==
  pages = <<>> \/ (Strip(Head(pages)) = "" /\ AllBlank(Tail(pages)))
SampledBlank ==
  AllBlank(SubSeq(doc.pages, 1,
                  IF Len(doc.pages) < SampledPages THEN Len(doc.pages)
                  ELSE SampledPages))

\* C11: when the document opens and the text of all sampled pages is empty,
\* or when the extractor of a recognized format has returned no record,
\* detect_and_parse returns None, the value it returns for an unknown
\* format, and raises nothing; and it never returns a result whose
\* transaction list is empty.
C11_NoMatchOutcomes ==
  /\ (det_pc = "done" /\ doc.open = "ok" /\ SampledBlank)
       => result = "None" /\ parser_called = ""
  /\ (det_pc = "done" /\ parser_called # "" /\ transactions = <<>>)
       => result = "None"
  /\ result = "dict" => Len(transactions) > 0

\* C11 happens: the extractor of a recognized format gave back no record and
\* the call returned None
C11_Witness ==
  /\ det_pc = "done"
  /\ parser_called \in ParserMap
  /\ transactions = <<>>
  /\ result = "None"
  /\ ~SampledBlank

\* a document of three pages without text was answered with None
C11_BlankPages ==
  /\ det_pc = "done"
  /\ Len(doc.pages) = SampledPages
  /\ SampledBlank
  /\ result = "None"

(***************************************************************************)
(* Claims about the SBI bank extractor and its calls                       *)
(***************************************************************************)
\* parse_sbi_bank on the pages `pages` with nothing else running
RECURSIVE SbiPagesAlone(_, _)
SbiPagesAlone(call, pages) ==
  IF pages = <<>> THEN call
  ELSE SbiPagesAlone(SbiProcessPage(call, Head(pages)), Tail(pages))
SbiAlone(pages) ==
  With(SbiPagesAlone([transactions |-> <<>>, col_x1 |-> NoProfile,
                      state |-> [last_date |-> "", last_year |-> ""]],
                     pages).transactions, LAMBDA t :
    [i \in 1..Len(t) |-> SbiPostProcess(t[i])])

\* C12: two calls that parse the same document return the same records, and
\* what a call returns is what parsing its document alone gives, whatever
\* the other call has parsed before or in between: the column profile, the
\* last date and the last year of a call are not seen by the other.
C12_CallsIndependent ==
  /\ \A a \in SbiCalls : \A b \in SbiCalls :
       ( /\ sbi_calls[a].pc = "done" /\ sbi_calls[b].pc = "done"
         /\ sbi_docs[a] = sbi_docs[b] )
         => sbi_calls[a].transactions = sbi_calls[b].transactions
  /\ \A c \in SbiCalls :
       sbi_calls[c].pc = "done"
         => sbi_calls[c].transactions = SbiAlone(sbi_docs[c])

\* C12 happens: the second call parsed a page whose reading depends on the
\* profile and the year of the pages before it, while the first call, on
\* another document, had a calibrated profile and a year in hand
C12_Witness ==
  /\ sbi_calls[1].pc = "scan"
  /\ sbi_calls[1].col_x1.some
  /\ sbi_calls[1].col_x1.debit_x1 # DEFAULT_DEBIT_X1
  /\ sbi_calls[1].state.last_year = "2024"
  /\ sbi_calls[2].pc = "done"
  /\ sbi_docs[1] # sbi_docs[2]
  /\ Len(sbi_docs[2]) = 1
  /\ \E i \in 1..Len(sbi_docs[2][1]) : sbi_docs[2][1][i].text = "NEFT SALARY"
  /\ Len(sbi_calls[2].transactions) = 1
  /\ sbi_calls[2].transactions[1].date = ""
  /\ sbi_calls[2].transactions[1].description = "IMPS CHARGE"

(***************************************************************************)
(* Claims about the ledger categorizer                                     *)
(***************************************************************************)
\* A rule: the keyword sets that must each occur, and the category.  The
\* bank-account formats refine the transfer keywords by merchant keywords.
Rule(all, label) == [all |-> all, label |-> label]
TransferWords == {"UPI", "IMPS", "NEFT", "RTGS"}
CashRules ==
  << Rule(<<{"SALARY"}>>, "Salary"), Rule(<<{"INTEREST"}>>, "Interest"),
     Rule(<<{"ATM", "CASH"}>>, "Cash") >>

\* the rules of each format in the order its _determine_ledger declares them
LedgerRules(format) ==
  CASE format = "sbi_bank" ->
         << Rule(<<TransferWords, {"ZOMATO", "SWIGGY", "FOOD"}>>, "Food & Dining"),
            Rule(<<TransferWords, {"NETFLIX", "SPOTIFY", "AMAZON PRIME", "HOTSTAR"}>>,
                 "Entertainment"),
            Rule(<<TransferWords, {"ZERODHA", "GROWW", "ANGEL", "BROKER"}>>, "Investment"),
            Rule(<<TransferWords, {"ELECTRICITY", "WATER", "GAS", "BROADBAND", "AIRTEL",
                                   "JIO", "RECHARGE"}>>, "Utilities"),
            Rule(<<TransferWords, {"INSURANCE", "LIC", "POLICY"}>>, "Insurance"),
            Rule(<<TransferWords, {"RENT"}>>, "Rent"),
            Rule(<<TransferWords, {"SBI CARD", "CREDIT CARD", "CC PAYMENT", "SBICARDSAN"}>>,
                 "Credit Card Payment"),
            Rule(<<TransferWords>>, "Transfer"),
            Rule(<<{"SALARY", "SAL"}>>, "Salary"),
            Rule(<<{"INTEREST", "INT.COLL"}>>, "Interest"),
            Rule(<<{"ATM", "CASH"}>>, "Cash"),
            Rule(<<{"EMI"}>>, "EMI/Loan"),
            Rule(<<{"TAX", "GST", "TDS"}>>, "Tax") >>
    [] format = "hdfc_bank" ->
         << Rule(<<TransferWords, {"ZOMATO", "SWIGGY"}>>, "Food & Dining"),
            Rule(<<TransferWords, {"ZERODHA", "GROWW"}>>, "Investment"),
            Rule(<<TransferWords, {"RECHARGE", "AIRTEL", "JIO"}>>, "Utilities"),
            Rule(<<TransferWords>>, "Transfer") >>
           \o CashRules \o << Rule(<<{"EMI"}>>, "EMI/Loan") >>
    [] format = "yes_bank" ->
         << Rule(<<TransferWords, {"ZOMATO", "SWIGGY"}>>, "Food & Dining"),
            Rule(<<TransferWords, {"ZERODHA", "GROWW"}>>, "Investment"),
            Rule(<<TransferWords, {"RECHARGE", "AIRTEL", "JIO", "PREPAID"}>>, "Utilities"),
            Rule(<<TransferWords, {"NETFLIX", "SPOTIFY", "APPLE"}>>, "Entertainment"),
            Rule(<<TransferWords, {"PORTER", "CAB", "OLA", "UBER"}>>, "Transport"),
            Rule(<<TransferWords, {"MEDICINE", "BLOOD TEST", "HOSPITAL"}>>, "Medical"),
            Rule(<<TransferWords, {"FAMILY"}>>, "Family Transfer"),
            Rule(<<TransferWords, {"CREDIT CARD"}>>, "Credit Card Payment"),
            Rule(<<TransferWords, {"JEWELLERY"}>>, "Shopping"),
            Rule(<<TransferWords>>, "Transfer") >>
           \o CashRules \o << Rule(<<{"FUNDS TRF"}>>, "Transfer") >>
    [] format = "rbl_bank" ->
         << Rule(<<TransferWords, {"SWIGGY", "ZOMATO"}>>, "Food & Dining"),
            Rule(<<TransferWords, {"NETFLIX", "SPOTIFY", "APPLE"}>>, "Entertainment"),
            Rule(<<TransferWords>>, "Transfer"),
            Rule(<<{"INT.PD", "INTEREST"}>>, "Interest"),
            Rule(<<{"GST"}>>, "Fees & Charges"),
            Rule(<<{"SMS", "ALERT"}>>, "Fees & Charges"),
            Rule(<<{"IMPS CHARGE"}>>, "Fees & Charges") >>
    [] format = "standard_bank" ->
         << Rule(<<TransferWords, {"SWIGGY", "ZOMATO"}>>, "Food & Dining"),
            Rule(<<TransferWords>>, "Transfer"),
            Rule(<<{"SALARY"}>>, "Salary"),
            Rule(<<{"INTEREST"}>>, "Interest"),
            Rule(<<{"BALANCE FORWARD"}>>, "Opening Balance") >>
    [] OTHER ->
         [i \in 1..Len(CreditLedgers(format)) |->
            Rule(<<CreditLedgers(format)[i][1]>>, CreditLedgers(format)[i][2])]

\* the rules whose keyword sets all occur in the upper-cased description
RulesMatching(rules, description) ==
  {i \in 1..Len(rules) :
     \A k \in 1..Len(rules[i].all) : ContainsAny(Upper(description), rules[i].all[k])}

\* C13: the label _determine_ledger has returned is the category of the
\* first rule of the format, in declared order, whose keywords occur in the
\* upper-cased description; it is 'General' exactly when no rule matches;
\* and it is one of the format's categories or 'General'.
C13_LedgerFirstMatch ==
  (fn_name = "_determine_ledger" /\ fn_result.done)
    => With(LedgerRules(fn_args.format), LAMBDA rules :
       With(RulesMatching(rules, fn_args.description), LAMBDA hits :
         /\ (hits = {}) = (fn_result.value = "General")
         /\ hits # {}
              => fn_result.value = rules[CHOOSE i \in hits : \A j \in hits : i <= j].label
         /\ fn_result.value \in {rules[i].label : i \in 1..Len(rules)} \cup {"General"}))

\* C13 happens: a description in which the keywords of two rules with
\* different categories occur got the category of the earlier rule
C13_Witness ==
  /\ fn_name = "_determine_ledger"
  /\ fn_result.done
  /\ With(LedgerRules(fn_args.format), LAMBDA rules :
     With(RulesMatching(rules, fn_args.description), LAMBDA hits :
       /\ \E i \in hits : \E j \in hits :
            i < j /\ rules[i].label # rules[j].label /\ fn_result.value = rules[i].label
       /\ fn_args.format = "yes_credit"))

(***************************************************************************)
(* Claims about the polarity of the line-based extractors                  *)
(***************************************************************************)
CreditKeywords == {"PAYMENT RECEIVED", "REFUND", "REVERSAL"}

\* C14: in every line-based credit-card format, a record whose cleaned
\* description contains PAYMENT RECEIVED, REFUND or REVERSAL has its amount
\* in credit and an empty debit, whatever suffix the amount carried.
C14_KeywordForcesCredit ==
  \A i \in 1..Len(transactions) :
    ContainsAny(Upper(transactions[i].description), CreditKeywords)
      => transactions[i].debit = Empty /\ transactions[i].credit # Empty

(***************************************************************************)
(* Claims about the routing-code tier and the keyword fallback             *)
(***************************************************************************)
\* the credit-card format of the institution of a bank-account format
CreditCounterpart ==
  [sbi_bank |-> "sbi_credit", yes_bank |-> "yes_credit",
   hdfc_bank |-> "hdfc_credit", rbl_bank |-> "rbl_credit"]

CardAndLimit ==
  /\ Contains(Lower(RawFirstPage), "credit card")
  /\ Contains(Lower(RawFirstPage), "credit limit")

\* C15: when no Tier-1 predicate holds and the routing code of the first
\* page maps to the SBI, Yes, HDFC or RBL bank-account format,
\* detect_bank_type returns the institution's credit-card format if the
\* first page contains both 'credit card' and 'credit limit', and the
\* bank-account format otherwise.
C15_Tier2Override ==
  ( /\ det_pc = "dispatch"
    /\ FirstTier1(Lower(full_text), Lower(RawFirstPage)) = ""
    /\ HasMappedRoutingCode
    /\ IfscBankMap[IfscPrefix(RawFirstPage)] \in DOMAIN CreditCounterpart )
  => bank_type = IF CardAndLimit
                 THEN CreditCounterpart[IfscBankMap[IfscPrefix(RawFirstPage)]]
                 ELSE IfscBankMap[IfscPrefix(RawFirstPage)]

\* the override that detect_bank_type does make: an HDFC routing code with
\* both phrases is labelled hdfc_credit
C15_HdfcOverride ==
  /\ det_pc = "dispatch"
  /\ FirstTier1(Lower(full_text), Lower(RawFirstPage)) = ""
  /\ IfscPrefix(RawFirstPage) = "HDFC"
  /\ CardAndLimit
  /\ bank_type = "hdfc_credit"


\* the first page holds a token of the shape 4 letters, '0', 6 alphanumerics
HasRoutingToken == \E i \in 1..Len(RawFirstPage) : IfscAt(RawFirstPage, i)

\* C16: whenever the first page holds a routing-code token and no Tier-1
\* predicate holds, the label is what the routing-code tier alone decides
\* ('unknown' when the prefix of the first token is not in the table): no
\* Tier-3 keyword of the page changes it.
C16_Tier3OnlyWithoutToken ==
  ( /\ det_pc = "dispatch"
    /\ FirstTier1(Lower(full_text), Lower(RawFirstPage)) = ""
    /\ HasRoutingToken )
  => bank_type = IF HasMappedRoutingCode
                 THEN Tier2(RawFirstPage, Lower(RawFirstPage))
                 ELSE "unknown"


\* an amount field that is empty, a number, or a text float() reads once
\* its commas are removed
ReadableAmount(v) ==
  \/ v = Empty
  \/ v.t = "num"
  \/ v.t = "str" /\ FloatOk(RemoveChar(v.s, ","))

\* C17: no record an extractor has emitted carries as its debit, credit or
\* balance a text that cannot be read as a decimal number: the candidate
\* with such a token is dropped and the rows after it are still read.
C17_MalformedAmountDropped ==
  \A i \in 1..Len(transactions) :
    /\ ReadableAmount(transactions[i].debit)
    /\ ReadableAmount(transactions[i].credit)
    /\ ReadableAmount(transactions[i].balance)


(***************************************************************************)
(* Claims about the order and the serials of the returned records          *)
(***************************************************************************)
\* record r is record p of the extractor, but for serial and balance
SameEntry(r, p) ==
  /\ r.date = p.date
  /\ r.description = p.description
  /\ r.debit = p.debit
  /\ r.credit = p.credit
  /\ r.ledger = p.ledger

ColumnNames == <<"debit", "credit", "balance">>

\* the column of the profile nearest to x1, the earlier-declared one of two
\* columns at the same distance
NearestColumn(profile, x1) ==
  CHOOSE i \in 1..3 :
    /\ \A j \in 1..3 : Abs(x1 - profile[i]) <= Abs(x1 - profile[j])
    /\ \A j \in 1..(i - 1) : Abs(x1 - profile[j]) # Abs(x1 - profile[i])

\* the distance is within the tolerance of the format: up to and including
\* it in sbi_bank.py and rbl_bank.py, below it in hdfc_bank.py
WithinTolerance(format, d) ==
  IF format = "hdfc_bank" THEN d < ToleranceOf(format) ELSE d <= ToleranceOf(format)

RowHasDate(row) ==
  \E i \in 1..Len(row.words) :
    row.words[i].x0 < 1000 /\ DayText(Strip(row.words[i].text))

\* the rows of the page below the header that the blacklist does not skip
SbiEligibleRows(call, words) ==
  With(SbiHeader(StartProfile(call.col_x1), words), LAMBDA prof :
  With(RowsByRoundedTop(words), LAMBDA rows :
    {k \in 1..Len(rows) :
       /\ ~(prof.header_y # 0 - 1 /\ rows[k].key <= prof.header_y)
       /\ ~ContainsAny(
             Lower(Join([i \in 1..Len(rows[k].words) |->
                           SortedBy(rows[k].words, LAMBDA w : w.x0)[i].text], " ")),
             SbiSkipPhrases)}))

\* how many of them carry a date token
SbiDatedRows(call, words) ==
  With(RowsByRoundedTop(words), LAMBDA rows :
    Cardinality({k \in SbiEligibleRows(call, words) : RowHasDate(rows[k])}))

\* C20: a row below the header that is not blacklisted starts a new record
\* if and only if it carries a date token in the left-hand range; so reading
\* a page adds exactly as many records as the page has such dated rows,
\* whether or not the rows carry amounts.
C20_DateAnchorsRecords ==
  [][ \A c \in SbiCalls :
        (sbi_calls[c].pc = "scan" /\ sbi_calls'[c].page_i = sbi_calls[c].page_i + 1)
          => Len(sbi_calls'[c].transactions)
               = Len(sbi_calls[c].transactions)
                   + SbiDatedRows(sbi_calls[c], sbi_docs[c][sbi_calls[c].page_i + 1]) ]_vars


(***************************************************************************)
(* Claims about continuation rows in the word-position extractors          *)
(***************************************************************************)
\* the rounded tops of the rows of the page that carry a date token
SbiDatedTops(words) ==
  With(RowsByRoundedTop(words), LAMBDA rows :
    {rows[k].key : k \in {j \in 1..Len(rows) : RowHasDate(rows[j])}})

\* the words of the page above its first dated row (all of them when the
\* page has no dated row)
SbiLeadingWords(words) ==
  With(SbiDatedTops(words), LAMBDA tops :
    Pick(words, {i \in 1..Len(words) : \A y \in tops : Round(words[i].top) < y}))

\* the call as _process_page takes it
SbiCallArgs(c) ==
  [transactions |-> sbi_calls[c].transactions, col_x1 |-> sbi_calls[c].col_x1,
   state |-> sbi_calls[c].state]

\* C21: a row without date token extends a record only if a dated row was
\* seen before it on the same page (and within the continuation gap); the
\* rows at the top of a page, before the page's first dated row, change no
\* record: when they have been read the list is as it was before the page.
C21_LeadingRowsChangeNothing ==
  \A c \in DOMAIN sbi_calls :
    (sbi_calls[c].pc = "scan" /\ sbi_calls[c].page_i < Len(sbi_docs[c]))
      => SbiProcessPage(SbiCallArgs(c),
                        SbiLeadingWords(sbi_docs[c][sbi_calls[c].page_i + 1])).transactions
           = sbi_calls[c].transactions


(***************************************************************************)
(* Claims about what an SBI call carries from page to page                 *)
(***************************************************************************)
\* the right edge of the last header word `name` right of min_x0 on the
\* page, or old when the page has none
HeaderEdge(words, name, min_x0, old) ==
  With({i \in 1..Len(words) :
          Lower(Strip(words[i].text)) = name /\ words[i].x0 > min_x0}, LAMBDA hits :
    IF hits = {} THEN old
    ELSE words[CHOOSE i \in hits : \A j \in hits : i >= j].x1)

\* the profile in effect when a page begins: the carried one, or the static
\* defaults when no page with words has been read
CarriedOrDefault(col_x1) ==
  IF col_x1.some THEN <<col_x1.debit_x1, col_x1.credit_x1, col_x1.balance_x1>>
  ELSE <<DEFAULT_DEBIT_X1, DEFAULT_CREDIT_X1, DEFAULT_BALANCE_X1>>

\* C22: reading a page with no words leaves the carried profile as it is;
\* reading any other page leaves as the profile, column by column, the right
\* edge of the page's header word if it has one, and else the edge in effect
\* at the end of the previous page with words (the static default when
\* there was none).
C22_ProfileAcrossPages ==
  [][ \A c \in SbiCalls :
        (sbi_calls[c].pc = "scan" /\ sbi_calls'[c].page_i = sbi_calls[c].page_i + 1)
          => With(sbi_docs[c][sbi_calls[c].page_i + 1], LAMBDA words :
             With(CarriedOrDefault(sbi_calls[c].col_x1), LAMBDA old :
               IF words = <<>> THEN sbi_calls'[c].col_x1 = sbi_calls[c].col_x1
               ELSE sbi_calls'[c].col_x1 =
                      [some |-> TRUE,
                       debit_x1 |-> HeaderEdge(words, "debit", 3500, old[1]),
                       credit_x1 |-> HeaderEdge(words, "credit", 4000, old[2]),
                       balance_x1 |-> HeaderEdge(words, "balance", 4800, old[3])])) ]_vars

\* C22 happens: after a page with header words, a page with words and no
\* header has been read and the calibrated profile is still in effect
C22_Witness ==
  \E c \in DOMAIN sbi_calls :
    /\ sbi_calls[c].page_i = 2
    /\ \E i \in 1..Len(sbi_docs[c][1]) : sbi_docs[c][1][i].text = "Debit"
    /\ sbi_docs[c][2] # <<>>
    /\ \A i \in 1..Len(sbi_docs[c][2]) : sbi_docs[c][2][i].text # "Debit"
    /\ sbi_calls[c].col_x1.some
    /\ sbi_calls[c].col_x1.debit_x1 = 4200
    /\ sbi_calls[c].col_x1.credit_x1 = 4400


\* the words in reading order: by row, then from left to right
ReadingOrder(words) == SortedBy(words, LAMBDA w : Round(w.top) * 100000 + w.x0)

RECURSIVE AllWords(_)
AllWords(pages) ==
  IF pages = <<>> THEN <<>> ELSE ReadingOrder(Head(pages)) \o AllWords(Tail(pages))

\* the last 4-digit year token among the words, "" when there is none
LastYearToken(words) ==
  With({i \in 1..Len(words) : YearText(Strip(words[i].text))}, LAMBDA years :
    IF years = {} THEN ""
    ELSE Strip(words[CHOOSE i \in years : \A j \in years : i >= j].text))

\* the words of the row left of x0 = 100 that are a day, a month, a year
DateWords(row, Is(_)) ==
  Pick(ReadingOrder(row.words),
       {i \in 1..Len(row.words) :
          /\ ReadingOrder(row.words)[i].x0 < 1000
          /\ Is(Strip(ReadingOrder(row.words)[i].text))})

\* the date of the row has a day and a month and no year
DayMonthOnly(row) ==
  /\ DateWords(row, DayText) # <<>>
  /\ DateWords(row, MonthText) # <<>>
  /\ DateWords(row, YearText) = <<>>

\* the rows of the page that become a record: those not skipped that hold an
\* amount in a column of the page's profile, from top to bottom
SbiRecordRows(call, words) ==
  With(SbiHeader(StartProfile(call.col_x1), words), LAMBDA prof :
  With(RowsByRoundedTop(words), LAMBDA rows :
  With(SbiEligibleRows(call, words), LAMBDA elig :
    Pick(rows, {k \in elig :
                  \E i \in 1..Len(rows[k].words) :
                    /\ IsAmountText(Strip(rows[k].words[i].text))
                    /\ ClassifyCol(rows[k].words[i].x1, prof.debit_x1, prof.credit_x1,
                                   prof.balance_x1) # ""}))))

\* C23: the record of a row whose date has a day and a month and no year is
\* dated with the most recently seen 4-digit year token in reading order,
\* wherever it stood: in a date, a value date, a description or a
\* continuation row, on this page or on an earlier page of the document.
C23_YearBackfill ==
  [][ \A c \in SbiCalls :
        (sbi_calls[c].pc = "scan" /\ sbi_calls'[c].page_i = sbi_calls[c].page_i + 1)
          => With(sbi_docs[c][sbi_calls[c].page_i + 1], LAMBDA words :
             With(SbiRecordRows(SbiCallArgs(c), words), LAMBDA recrows :
             With(Len(sbi_calls[c].transactions), LAMBDA n :
               \A j \in 1..Len(recrows) :
                 DayMonthOnly(recrows[j])
                   => With(LastYearToken(
                             AllWords(SubSeq(sbi_docs[c], 1, sbi_calls[c].page_i))
                               \o Pick(ReadingOrder(words),
                                       {i \in 1..Len(words) :
                                          Round(ReadingOrder(words)[i].top) < recrows[j].key})),
                           LAMBDA year :
                        sbi_calls'[c].transactions[n + j].date
                          = Join(<<Strip(DateWords(recrows[j], DayText)[1].text),
                                   Strip(DateWords(recrows[j], MonthText)[1].text)>>
                                 \o (IF year = "" THEN <<>> ELSE <<year>>), " "))))) ]_vars

(***************************************************************************)
(* Claims about the table extractors of standard_bank.py and yes_bank.py   *)
(***************************************************************************)
TableFormats == {"standard_bank", "yes_bank"}

\* the row is one the extractor reads as a header
IsHeaderRow(format, row) ==
  /\ Len(row) >= (IF format = "yes_bank" THEN 4 ELSE 3)
  /\ ContainsAny(Lower(Join([i \in 1..Len(row) |-> Strip(row[i])], " ")),
                 {"deposit", "withdrawal"})

\* the default column indices of the format
DefaultColumns(format) ==
  IF format = "yes_bank"
  THEN [col_withdrawal |-> 4, col_deposit |-> 5, col_balance |-> 6, col_desc |-> 3]
  ELSE [col_withdrawal |-> 5, col_deposit |-> 4, col_balance |-> 6, col_desc |-> 2]

\* the indices a header row names, those of `old` for the columns it does
\* not name
HeaderColumns(format, row, old) ==
  With([i \in 1..Len(row) |-> Strip(row[i])], LAMBDA cells :
    IF format = "yes_bank"
    THEN [col_withdrawal |-> YesHeaderCol(cells, "withdrawal", old.col_withdrawal),
          col_deposit |-> YesHeaderCol(cells, "deposit", old.col_deposit),
          col_balance |-> YesHeaderCol(cells, "balance", old.col_balance),
          col_desc |-> YesHeaderCol(cells, "description", old.col_desc)]
    ELSE [col_withdrawal |-> HeaderCol(cells, "withdrawal", old.col_withdrawal),
          col_deposit |-> HeaderCol(cells, "deposit", old.col_deposit),
          col_balance |-> HeaderCol(cells, "balance", old.col_balance),
          col_desc |-> HeaderCol(cells, "description", old.col_desc)])

\* the indices in force for row k of the table: the defaults, overridden by
\* the header rows above row k in this table
RECURSIVE ColumnsAt(_, _, _)
ColumnsAt(format, table, k) ==
  IF k <= 1 THEN DefaultColumns(format)
  ELSE IF IsHeaderRow(format, table[k - 1])
       THEN HeaderColumns(format, table[k - 1], ColumnsAt(format, table, k - 1))
       ELSE ColumnsAt(format, table, k - 1)

\* the list after a row that is read with the column indices cols
RowReadWith(format, cols, txns, row) ==
  IF format = "yes_bank"
  THEN YesTableRow([txns |-> txns, col_withdrawal |-> cols.col_withdrawal,
                    col_deposit |-> cols.col_deposit, col_balance |-> cols.col_balance,
                    col_desc |-> cols.col_desc], row).txns
  ELSE StandardTableRow([txns |-> txns, col_withdrawal |-> cols.col_withdrawal,
                         col_deposit |-> cols.col_deposit, col_balance |-> cols.col_balance,
                         col_desc |-> cols.col_desc], row).txns

\* the list after the first k rows of the table when header rows change
\* nothing in it and every other row is read with the indices in force
RECURSIVE HeaderScoped(_, _, _, _)
HeaderScoped(format, table, txns, k) ==
  IF k = 0 THEN txns
  ELSE With(HeaderScoped(format, table, txns, k - 1), LAMBDA before :
         IF IsHeaderRow(format, table[k]) THEN before
         ELSE RowReadWith(format, ColumnsAt(format, table, k), before, table[k]))

\* the page the step has read
PageRead == bank_pages'[Len(bank_pages')]

\* C24: in the table extractors of Standard Chartered and Yes Bank the rows
\* of a table above its first header row are read with the default column
\* indices, the rows below a header row with the indices of that header, the
\* next table starts from the defaults again, and a header row neither makes
\* nor extends a record.
C24_HeaderScope ==
  [][(bank_fmt \in TableFormats /\ Len(bank_pages') = Len(bank_pages) + 1
        /\ PageRead.kind = "table")
       => With(HeaderScoped(bank_fmt, PageRead.rows, transactions, Len(PageRead.rows)),
               LAMBDA expected :
            (bank_fmt = "standard_bank" \/ expected # <<>>) => transactions' = expected)]_vars

\* C24 happens: a table whose header puts the description in the second
\* column and the withdrawals before the deposits was read, and the row
\* below it gave a record read with those indices; and a table on the next
\* page, without header, was read with the defaults
C24_Witness ==
  /\ bank_fmt \in TableFormats
  /\ Len(bank_pages) >= 1
  /\ bank_pages[1].kind = "table"
  /\ Len(bank_pages[1].rows) = 2
  /\ IsHeaderRow(bank_fmt, bank_pages[1].rows[1])
  /\ ColumnsAt(bank_fmt, bank_pages[1].rows, 2) # DefaultColumns(bank_fmt)
  /\ Len(transactions) = 1
  /\ transactions[1].description = Strip(bank_pages[1].rows[2][2])
  /\ transactions[1].description
       # Strip(bank_pages[1].rows[2][DefaultColumns(bank_fmt).col_desc + 1])

\* the scope ends with the table: the header of the table on the first page
\* does not reach the row of the table on the second page
C24_NextTableDefaults ==
  /\ bank_fmt \in TableFormats
  /\ Len(bank_pages) = 2
  /\ bank_pages[1].kind = "table" /\ bank_pages[2].kind = "table"
  /\ Len(bank_pages[1].rows) = 1 /\ Len(bank_pages[2].rows) = 1
  /\ IsHeaderRow(bank_fmt, bank_pages[1].rows[1])
  /\ ColumnsAt(bank_fmt, bank_pages[1].rows, 2) # DefaultColumns(bank_fmt)
  /\ Len(transactions) = 1
  /\ transactions[1].description
       = Strip(bank_pages[2].rows[1][DefaultColumns(bank_fmt).col_desc + 1])

\* the description, debit and credit a dated row of a Standard Chartered
\* table is read with, and those of a dated line of a page without table
TableRowFields(table, k) ==
  With(ColumnsAt("standard_bank", table, k), LAMBDA cols :
  With([i \in 1..Len(table[k]) |-> Strip(table[k][i])], LAMBDA cells :
    [dated |-> Len(cells) >= 3 /\ DayMonYearEnd(cells[1], FALSE, 4, 4) # 0
                 /\ ~IsHeaderRow("standard_bank", table[k]),
     description |-> CollapseWs(CellAt(cells, cols.col_desc)),
     debit |-> AmountCell(cells, cols.col_withdrawal),
     credit |-> AmountCell(cells, cols.col_deposit)]))

\* the dated rows of the table that carry a balance brought forward: the
\* description contains BALANCE FORWARD, debit and credit are empty
BalanceForwardRows(table) ==
  {k \in 1..Len(table) :
     With(TableRowFields(table, k), LAMBDA f :
       /\ f.dated
       /\ Contains(Upper(f.description), "BALANCE FORWARD")
       /\ f.debit = Empty /\ f.credit = Empty)}

\* the records of the list that are tagged as opening balance
OpeningBalanceRecords(txns) ==
  {i \in 1..Len(txns) : txns[i].ledger = "Opening Balance"}

\* C25: in the Standard Chartered extractor every dated row whose description
\* contains BALANCE FORWARD and that has neither debit nor credit is emitted
\* as a record with ledger 'Opening Balance' and empty debit and credit, and
\* no other record has that ledger: a table page adds exactly one such record
\* for each of these rows.
C25_BalanceForwardKept ==
  [][(bank_fmt = "standard_bank" /\ Len(bank_pages') = Len(bank_pages) + 1
        /\ PageRead.kind = "table")
       => /\ Cardinality(OpeningBalanceRecords(transactions'))
               = Cardinality(OpeningBalanceRecords(transactions))
                   + Cardinality(BalanceForwardRows(PageRead.rows))
          /\ \A i \in OpeningBalanceRecords(transactions') :
               transactions'[i].debit = Empty /\ transactions'[i].credit = Empty]_vars

(***************************************************************************)
(* Claims about the scan of a page in the line-based extractors            *)
(***************************************************************************)
\* the scan is inside the transaction section after these lines of a page:
\* a start marker has been read and no stop marker after it
RECURSIVE InSection(_, _)
InSection(f, lines) ==
  IF lines = <<>> THEN FALSE
  ELSE IF lines[Len(lines)] = StartLine(f) THEN TRUE
  ELSE IF lines[Len(lines)] = StopLine(f) THEN FALSE
  ELSE InSection(f, SubSeq(lines, 1, Len(lines) - 1))

\* the lines of the page being scanned
PageLines == pages_read[Len(pages_read)]

\* the step reads a line of the page
LineStep ==
  /\ Len(pages_read') = Len(pages_read)
  /\ Len(pages_read'[Len(pages_read)]) = Len(PageLines) + 1

\* C26: in the line-based extractors a line read while the scan is outside
\* the transaction section (before the first start marker of the page, or
\* after a stop marker and before the next start marker) opens no candidate,
\* extends no description and produces no record.
C26_SectionGating ==
  [][(fmt \in LineFormats /\ LineStep /\ ~InSection(fmt, PageLines))
       => /\ current_txn' = current_txn
          /\ transactions' = transactions]_vars

\* the line the step reads
LineJustRead == pages_read'[Len(pages_read)][Len(PageLines) + 1]

\* the line is an anchor: read with no candidate open, it opens one
OpensCandidate(raw) == LineOf(fmt, [ScanState EXCEPT !.cur = NoTxn], raw).cur.some

\* C27: in the line-based extractors an open candidate is closed (handed to
\* the finalize function, which emits one record or none) exactly once,
\* before the candidate of the next anchor is opened or at the latest at the
\* end of the page; it is not handed over twice, not dropped while open and
\* not kept from one page to the next; and the records already in the list
\* are not changed by later lines.
C27_CandidateLifecycle ==
  [][(fmt \in LineFormats)
       => /\ Len(transactions') \in {Len(transactions), Len(transactions) + 1}
          /\ SubSeq(transactions', 1, Len(transactions)) = transactions
          /\ Len(finalized') \in {Len(finalized), Len(finalized) + 1}
          /\ SubSeq(finalized', 1, Len(finalized)) = finalized
          /\ (Len(finalized') = Len(finalized) + 1)
               => (/\ current_txn.some
                   /\ LastFinalized'.txn = current_txn
                   /\ LastFinalized'.before = transactions
                   /\ LastFinalized'.after = transactions'
                   /\ IF LineStep /\ OpensCandidate(LineJustRead)
                      THEN current_txn'.some ELSE current_txn' = NoTxn)
          /\ (Len(finalized') = Len(finalized))
               => (/\ transactions' = transactions
                   /\ current_txn.some
                        => (LineStep /\ current_txn'.some /\ ~OpensCandidate(LineJustRead)))
          /\ (~LineStep) => (current_txn' = NoTxn)]_vars

\* C27 happens: two candidates were opened on one page, the first closed by
\* the anchor of the second and the second at the end of the page, each into
\* one record, and a candidate of the next page was closed after them
C27_Witness ==
  /\ fmt \in LineFormats
  /\ Len(pages_read) = 2
  /\ Len(finalized) = 3
  /\ Len(transactions) = 3
  /\ \A i \in 1..3 : finalized[i].after = Append(finalized[i].before, transactions[i])
  /\ current_txn = NoTxn
  /\ ln_pc = "done"

(***************************************************************************)
(* Claims about the rows of a page                                         *)
(***************************************************************************)
\* the rows of the result the word is in
RowsHolding(rows, w) ==
  {k \in 1..Len(rows) : \E i \in 1..Len(rows[k].words) : rows[k].words[i] = w}

\* the distance up to which two tops count as one row: Y_TOLERANCE in
\* hdfc_bank.py; half a point, the reach of round(), in the other two
RowTolerance(format) == IF format = "hdfc_bank" THEN Y_TOLERANCE ELSE 5

\* every word is in exactly one row
C28_OneRowEach ==
  (fn_name = "_group_words_by_y" /\ fn_result.done)
    => \A i \in 1..Len(fn_args.words) :
         Cardinality(RowsHolding(fn_result.value, fn_args.words[i])) = 1

\* C28: in every word-position extractor each word of a page is in exactly
\* one row, and two words whose tops differ by at most the row tolerance
\* are in the same row.
C28_RowGrouping ==
  (fn_name = "_group_words_by_y" /\ fn_result.done)
    => /\ C28_OneRowEach
       /\ \A i, j \in 1..Len(fn_args.words) :
            Abs(fn_args.words[i].top - fn_args.words[j].top)
                <= RowTolerance(fn_args.format)
              => RowsHolding(fn_result.value, fn_args.words[i])
                   = RowsHolding(fn_result.value, fn_args.words[j])

\* C29: every record of a bank-account extractor carries the ledger its
\* format's _determine_ledger gives for the record's final description, the
\* description with all continuation rows merged in; only the record of the
\* balance brought forward has the reserved ledger instead.
C29_LedgerOfFinalDescription ==
  (bank_fmt \in BankFormats)
    => \A i \in 1..Len(transactions) :
         \/ transactions[i].ledger = "Opening Balance"
         \/ transactions[i].ledger = DetermineLedger(bank_fmt, transactions[i].description)

\* the first cell of the row holds a date of the format
RowIsDated(format, row) ==
  /\ row # <<>>
  /\ IF format = "yes_bank" THEN YesDateEnd(Strip(row[1])) # 0
     ELSE DayMonYearEnd(Strip(row[1]), FALSE, 4, 4) # 0

\* the list after the first k rows of the table, and the record a
\* continuation row may extend (target, 0 for none), when a continuation
\* row's text goes to the record made by the last dated row above it in the
\* table and is discarded when that row made no record or there is none
RECURSIVE ContinuationScoped(_, _, _, _)
ContinuationScoped(format, table, txns, k) ==
  IF k = 0 THEN [txns |-> txns, target |-> 0]
  ELSE With(ContinuationScoped(format, table, txns, k - 1), LAMBDA prev :
       With(RowReadWith(format, ColumnsAt(format, table, k), prev.txns, table[k]),
            LAMBDA after :
         IF IsHeaderRow(format, table[k]) THEN prev
         ELSE IF Len(after) > Len(prev.txns) THEN [txns |-> after, target |-> Len(after)]
         ELSE IF RowIsDated(format, table[k]) THEN [txns |-> prev.txns, target |-> 0]
         ELSE IF after # prev.txns /\ prev.target = Len(prev.txns) /\ prev.target # 0
         THEN [txns |-> after, target |-> prev.target]
         ELSE prev))

\* C30: in the table extractors the text of a continuation row is appended
\* only to the record made by the most recent dated row above it in the same
\* table; it is discarded, and no earlier record is changed, when that row
\* made no record or when no dated row stands above it in the table.
C30_ContinuationTarget ==
  [][(bank_fmt \in TableFormats /\ Len(bank_pages') = Len(bank_pages) + 1
        /\ PageRead.kind = "table"
        /\ (bank_fmt = "yes_bank" => ProcessYesTable(PageRead.rows, transactions) # <<>>))
       => transactions' = ContinuationScoped(bank_fmt, PageRead.rows, transactions,
                                             Len(PageRead.rows)).txns]_vars

====
